---- MODULE Spec2Model ----
(***************************************************************************)
(* A model of sudoku-cli's engine: the Board (src/src/board.py), the       *)
(* backtracking Solver (src/src/solver.py) and the puzzle Generator        *)
(* (src/src/generator.py).                                                 *)
(*                                                                         *)
(* Python lists are objects: a Board holds a reference to its grid list    *)
(* and to its given list, so the model keeps the lists in two stores       *)
(* (grids, givens) and a Board as the pair of references it holds.  Two    *)
(* Boards alias exactly when they hold the same reference.                 *)
(*                                                                         *)
(* The recursive searches of the Solver run one step at a time: the        *)
(* variable stack holds the active invocations, innermost last, and every  *)
(* write to the grid is a step of its own.                                 *)
(***************************************************************************)
EXTENDS Integers, Sequences, FiniteSets, TLC

VARIABLES
    boards,     \* the live Board objects: name -> [grid |-> ref, given |-> ref]
    grids,      \* the grid lists: ref -> [row -> [col -> 0..9]]
    givens,     \* the given lists: ref -> [row -> [col -> BOOLEAN]]
    call,       \* the engine call in progress, or the last one made
    pc,         \* where that call is
    stack,      \* the active invocations of the recursive search, innermost last
    count,      \* count[0] of count_solutions
    rv,         \* what the invocation that has just returned returned
    ret,        \* what the call returned to its caller
    pre,        \* the boards and lists as they were when the call was made
    gen,        \* the locals of Generator.generate and _remove_cells
    nops,       \* how many Board operations have been made
    game        \* the Game: running, show_help and the fields of its game_state

vars == <<boards, grids, givens, call, pc, stack, count, rv, ret, pre, gen, nops, game>>

----------------------------------------------------------------------------
(* Board: the constants and the queries.                                   *)

SIZE == 9
BOX_SIZE == 3

Idx == 0..(SIZE - 1)
Cells == Idx \X Idx

None == "None"

Min(S) == CHOOSE m \in S : \A x \in S : m <= x

\* Board.__init__: every cell 0, no cell given.
EmptyGrid == [r \in Idx |-> [c \in Idx |-> 0]]
NoGiven == [r \in Idx |-> [c \in Idx |-> FALSE]]

\* A fresh list object: the smallest reference no live list holds.
NewRef(store) == Min((1..(Cardinality(DOMAIN store) + 1)) \ DOMAIN store)

\* self.grid and self.given of the Board named b.
GridOf(b) == grids[boards[b].grid]
GivenOf(b) == givens[boards[b].given]

\* Board.get
Get(b, row, col) == GridOf(b)[row][col]

\* Board.is_given
IsGiven(b, row, col) == GivenOf(b)[row][col]

\* A check that also counts the cell itself.
IsValidMove_CountsSelf(g, row, col, num) ==
    /\ \A c \in Idx : g[row][c] # num
    /\ \A r \in Idx : g[r][col] # num
    /\ LET box_row == (row \div BOX_SIZE) * BOX_SIZE
           box_col == (col \div BOX_SIZE) * BOX_SIZE
       IN  \A r \in box_row..(box_row + BOX_SIZE - 1) :
             \A c \in box_col..(box_col + BOX_SIZE - 1) : g[r][c] # num

\* Board.is_valid_move, on the grid list g.
IsValidMove(g, row, col, num) ==
    /\ \A c \in Idx : ~(c # col /\ g[row][c] = num)
    /\ \A r \in Idx : ~(r # row /\ g[r][col] = num)
    /\ LET box_row == (row \div BOX_SIZE) * BOX_SIZE
           box_col == (col \div BOX_SIZE) * BOX_SIZE
       IN  \A r \in box_row..(box_row + BOX_SIZE - 1) :
             \A c \in box_col..(box_col + BOX_SIZE - 1) :
               ~(<<r, c>> # <<row, col>> /\ g[r][c] = num)

\* A check of the zeros alone.
IsComplete_OnlyFilled(g) ==
    \A row \in Idx : \A col \in Idx : g[row][col] # 0

\* Board.is_complete, on the grid list g.
IsComplete(g) ==
    \A row \in Idx : \A col \in Idx :
        /\ g[row][col] # 0
        /\ IsValidMove(g, row, col, g[row][col])

\* Board.is_filled, on the grid list g.
IsFilled(g) == \A row \in Idx : \A col \in Idx : g[row][col] # 0

\* A scan that skips the column.
GetConflicts_NoColumn(g, row, col) ==
    LET num == g[row][col]
        box_row == (row \div BOX_SIZE) * BOX_SIZE
        box_col == (col \div BOX_SIZE) * BOX_SIZE
    IN  IF num = 0 THEN {}
        ELSE {<<row, c>> : c \in {c \in Idx : c # col /\ g[row][c] = num}}
             \cup {rc \in (box_row..(box_row + BOX_SIZE - 1))
                              \X (box_col..(box_col + BOX_SIZE - 1)) :
                        rc # <<row, col>> /\ g[rc[1]][rc[2]] = num}

\* Board.get_conflicts, on the grid list g.
GetConflicts(g, row, col) ==
    LET num == g[row][col]
        box_row == (row \div BOX_SIZE) * BOX_SIZE
        box_col == (col \div BOX_SIZE) * BOX_SIZE
    IN  IF num = 0 THEN {}
        ELSE {<<row, c>> : c \in {c \in Idx : c # col /\ g[row][c] = num}}
             \cup {<<r, col>> : r \in {r \in Idx : r # row /\ g[r][col] = num}}
             \cup {rc \in (box_row..(box_row + BOX_SIZE - 1))
                              \X (box_col..(box_col + BOX_SIZE - 1)) :
                        rc # <<row, col>> /\ g[rc[1]][rc[2]] = num}

----------------------------------------------------------------------------
(* Board: the operations, called by a client on the Board named "board".   *)

MaxOps == 3

TestCells == {<<0, 0>>, <<0, 1>>, <<4, 4>>}
TestValues == {0, 5, 7}

Snapshot == [boards |-> boards, grids |-> grids, givens |-> givens]

\* What Board.set writes: nothing when the cell is given.
SetWrites_NoGuard(b, row, col, value) ==
    [grids EXCEPT ![boards[b].grid][row][col] = value]

SetWrites(b, row, col, value) ==
    IF IsGiven(b, row, col)
    THEN grids
    ELSE [grids EXCEPT ![boards[b].grid][row][col] = value]

\* What Board.set returns.
SetReturns(b, row, col) == ~IsGiven(b, row, col)

Set(b, row, col, value) ==
    /\ pc = "idle"
    /\ nops < MaxOps
    /\ b \in DOMAIN boards
    /\ call' = [op |-> "set", obj |-> b, row |-> row, col |-> col, value |-> value]
    /\ pre' = Snapshot
    /\ grids' = SetWrites(b, row, col, value)
    /\ ret' = SetReturns(b, row, col)
    /\ nops' = nops + 1
    /\ UNCHANGED <<game, boards, givens, pc, stack, count, rv, gen>>

\* A mark_given that flips the flag.
MarkGiven_Toggles(b, row, col) ==
    /\ pc = "idle"
    /\ nops < MaxOps
    /\ b \in DOMAIN boards
    /\ call' = [op |-> "mark_given", obj |-> b, row |-> row, col |-> col]
    /\ pre' = Snapshot
    /\ givens' = [givens EXCEPT ![boards[b].given][row][col] = ~@]
    /\ ret' = None
    /\ nops' = nops + 1
    /\ UNCHANGED <<game, boards, grids, pc, stack, count, rv, gen>>

\* Board.mark_given
MarkGiven(b, row, col) ==
    /\ pc = "idle"
    /\ nops < MaxOps
    /\ b \in DOMAIN boards
    /\ call' = [op |-> "mark_given", obj |-> b, row |-> row, col |-> col]
    /\ pre' = Snapshot
    /\ givens' = [givens EXCEPT ![boards[b].given][row][col] = TRUE]
    /\ ret' = None
    /\ nops' = nops + 1
    /\ UNCHANGED <<game, boards, grids, pc, stack, count, rv, gen>>

NoCall == [op |-> "none"]
NoGen == [phase |-> "none"]

\* No Game has been made.
NoGame == [running |-> FALSE]

InitBoard ==
    /\ boards = [b \in {"board"} |-> [grid |-> 1, given |-> 1]]
    /\ grids = [i \in {1} |-> EmptyGrid]
    /\ givens = [i \in {1} |-> NoGiven]
    /\ call = NoCall
    /\ pc = "idle"
    /\ stack = <<>>
    /\ count = 0
    /\ rv = None
    /\ ret = None
    /\ pre = [boards |-> boards, grids |-> grids, givens |-> givens]
    /\ gen = NoGen
    /\ nops = 0
    /\ game = NoGame

NextBoard ==
    \/ \E cell \in TestCells, value \in TestValues : Set("board", cell[1], cell[2], value)
    \/ \E cell \in TestCells : MarkGiven("board", cell[1], cell[2])

SpecBoard == InitBoard /\ [][NextBoard]_vars

----------------------------------------------------------------------------
(* Board.copy, and the end of a Board's life.                              *)

\* A copy that shares the original's lists.
CopyOf_Shallow(b) ==
    [board  |-> boards[b],
     grids  |-> grids,
     givens |-> givens]

\* A copy that deep-copies the grid and shares the given list.
CopyOf_SharesGiven(b) ==
    LET g == NewRef(grids)
    IN  [board  |-> [grid |-> g, given |-> boards[b].given],
         grids  |-> grids @@ (g :> GridOf(b)),
         givens |-> givens]

\* Board.copy of the Board named b: a new Board holding two new lists, deep
\* copies of b's.  (The cells are integers and booleans, so a deep copy of
\* the list of rows is a list equal to it, held under a new reference.)
CopyOf(b) ==
    LET g == NewRef(grids)
        v == NewRef(givens)
    IN  [board  |-> [grid |-> g, given |-> v],
         grids  |-> grids @@ (g :> GridOf(b)),
         givens |-> givens @@ (v :> GivenOf(b))]

\* The Boards left when the local variable `name` goes out of scope, and the
\* lists some Board still holds.
Without(name) == [n \in DOMAIN boards \ {name} |-> boards[n]]
LiveGrids(bs) == [i \in {bs[n].grid : n \in DOMAIN bs} |-> grids[i]]
LiveGivens(bs) == [i \in {bs[n].given : n \in DOMAIN bs} |-> givens[i]]

----------------------------------------------------------------------------
(* Solver.  A frame of the stack is one invocation that has found its      *)
(* empty cell: [row, col, num], num being the candidate it has placed or   *)
(* will test next.  pc is "call" when an invocation is about to start,     *)
(* "loop" when the innermost invocation is in its for loop, "ret" when the *)
(* invocation it called has just returned to it, and "returned" when the   *)
(* outermost invocation has returned to the engine call that started it.   *)

\* Solver._find_empty_cell: the leftmost empty cell of the first row that has one.
FindEmptyCell(g) ==
    LET rows == {r \in Idx : \E c \in Idx : g[r][c] = 0}
    IN  IF rows = {} THEN None
        ELSE LET row == Min(rows)
             IN  <<row, Min({c \in Idx : g[row][c] = 0})>>

\* The grid list the search works on.
Target == boards[call.target].grid
Top == stack[Len(stack)]
Pop == SubSeq(stack, 1, Len(stack) - 1)

\* A loop that takes the largest candidate is_valid_move accepts.
FirstValid_Largest(g, row, col, from) ==
    LET ok == {n \in from..9 : IsValidMove(g, row, col, n)}
    IN  IF ok = {} THEN 10 ELSE CHOOSE n \in ok : \A m \in ok : m <= n

\* The first candidate of `for num in range(from, 10)` that is_valid_move
\* accepts at (row, col), or 10 when the loop runs out.
RECURSIVE FirstValid(_, _, _, _)
FirstValid(g, row, col, from) ==
    IF from > 9 THEN 10
    ELSE IF IsValidMove(g, row, col, from) THEN from
    ELSE FirstValid(g, row, col, from + 1)

\* The same for `for num in numbers`, from the i-th of the shuffled numbers:
\* the index of the first one accepted, or 10.
RECURSIVE FirstValidIn(_, _, _, _, _)
FirstValidIn(g, row, col, numbers, i) ==
    IF i > 9 THEN 10
    ELSE IF IsValidMove(g, row, col, numbers[i]) THEN i
    ELSE FirstValidIn(g, row, col, numbers, i + 1)

\* Where control is after an invocation returns, leaving the frames s.
AfterReturn(s) == IF s = <<>> THEN "returned" ELSE "ret"

Searching(fn) == pc \in {"call", "loop", "ret"} /\ call.search = fn

\* Solver.solve, lines 19-23: the start of an invocation.
SolveEnter ==
    /\ Searching("solve")
    /\ pc = "call"
    /\ LET empty == FindEmptyCell(grids[Target])
       IN  IF empty = None
           THEN /\ pc' = AfterReturn(stack)
                /\ stack' = stack
                /\ rv' = TRUE
           ELSE /\ stack' = Append(stack, [row |-> empty[1], col |-> empty[2], num |-> 1])
                /\ pc' = "loop"
                /\ rv' = rv
    /\ UNCHANGED <<game, boards, grids, givens, call, count, ret, pre, gen, nops>>

\* A loop that gives up at 8.
SolveTry_Skip9 ==
    /\ Searching("solve")
    /\ pc = "loop"
    /\ LET n == FirstValid(grids[Target], Top.row, Top.col, Top.num)
       IN  IF n <= 8
           THEN /\ grids' = [grids EXCEPT ![Target][Top.row][Top.col] = n]
                /\ stack' = [stack EXCEPT ![Len(stack)].num = n]
                /\ pc' = "call"
                /\ rv' = rv
           ELSE /\ stack' = Pop
                /\ pc' = AfterReturn(Pop)
                /\ grids' = grids
                /\ rv' = FALSE
    /\ UNCHANGED <<game, boards, givens, call, count, ret, pre, gen, nops>>

\* Solver.solve, lines 26-31 and 37: the for loop up to its next recursive
\* call, or to its end.
SolveTry ==
    /\ Searching("solve")
    /\ pc = "loop"
    /\ LET n == FirstValid(grids[Target], Top.row, Top.col, Top.num)
       IN  IF n <= 9
           THEN /\ grids' = [grids EXCEPT ![Target][Top.row][Top.col] = n]
                /\ stack' = [stack EXCEPT ![Len(stack)].num = n]
                /\ pc' = "call"
                /\ rv' = rv
           ELSE /\ stack' = Pop
                /\ pc' = AfterReturn(Pop)
                /\ grids' = grids
                /\ rv' = FALSE
    /\ UNCHANGED <<game, boards, givens, call, count, ret, pre, gen, nops>>

\* A return from the recursive call that leaves the placement on the grid.
SolveBack_KeepsPlacement ==
    /\ Searching("solve")
    /\ pc = "ret"
    /\ IF rv = TRUE
       THEN /\ stack' = Pop
            /\ pc' = AfterReturn(Pop)
       ELSE /\ stack' = [stack EXCEPT ![Len(stack)].num = Top.num + 1]
            /\ pc' = "loop"
    /\ UNCHANGED <<game, boards, grids, givens, call, count, rv, ret, pre, gen, nops>>

\* A return from a failed recursive call that undoes the placement and then
\* tests the same candidate again.
SolveBack_SameCandidate ==
    /\ Searching("solve")
    /\ pc = "ret"
    /\ IF rv = TRUE
       THEN /\ stack' = Pop
            /\ pc' = AfterReturn(Pop)
            /\ grids' = grids
       ELSE /\ grids' = [grids EXCEPT ![Target][Top.row][Top.col] = 0]
            /\ stack' = stack
            /\ pc' = "loop"
    /\ UNCHANGED <<game, boards, givens, call, count, rv, ret, pre, gen, nops>>

\* Solver.solve, lines 31-35: the recursive call has returned.
SolveBack ==
    /\ Searching("solve")
    /\ pc = "ret"
    /\ IF rv = TRUE
       THEN /\ stack' = Pop
            /\ pc' = AfterReturn(Pop)
            /\ grids' = grids
       ELSE /\ grids' = [grids EXCEPT ![Target][Top.row][Top.col] = 0]
            /\ stack' = [stack EXCEPT ![Len(stack)].num = Top.num + 1]
            /\ pc' = "loop"
    /\ UNCHANGED <<game, boards, givens, call, count, rv, ret, pre, gen, nops>>

\* A backtrack() that never looks at the limit.
BacktrackEnter_NoPrune ==
    /\ Searching("count_solutions")
    /\ pc = "call"
    /\ LET empty == FindEmptyCell(grids[Target])
       IN  IF empty = None
           THEN /\ count' = count + 1
                /\ pc' = AfterReturn(stack)
                /\ stack' = stack
           ELSE /\ stack' = Append(stack, [row |-> empty[1], col |-> empty[2], num |-> 1])
                /\ pc' = "loop"
                /\ count' = count
    /\ UNCHANGED <<game, boards, grids, givens, call, rv, ret, pre, gen, nops>>

\* Solver.count_solutions, lines 83-92: the start of backtrack().
BacktrackEnter ==
    /\ Searching("count_solutions")
    /\ pc = "call"
    /\ IF count >= call.limit
       THEN /\ pc' = AfterReturn(stack)
            /\ UNCHANGED <<stack, count>>
       ELSE LET empty == FindEmptyCell(grids[Target])
            IN  IF empty = None
                THEN /\ count' = count + 1
                     /\ pc' = AfterReturn(stack)
                     /\ stack' = stack
                ELSE /\ stack' = Append(stack, [row |-> empty[1], col |-> empty[2], num |-> 1])
                     /\ pc' = "loop"
                     /\ count' = count
    /\ UNCHANGED <<game, boards, grids, givens, call, rv, ret, pre, gen, nops>>

\* Solver.count_solutions, lines 94-97: the for loop up to its next
\* recursive call, or to its end.
BacktrackTry ==
    /\ Searching("count_solutions")
    /\ pc = "loop"
    /\ LET n == FirstValid(grids[Target], Top.row, Top.col, Top.num)
       IN  IF n <= 9
           THEN /\ grids' = [grids EXCEPT ![Target][Top.row][Top.col] = n]
                /\ stack' = [stack EXCEPT ![Len(stack)].num = n]
                /\ pc' = "call"
           ELSE /\ stack' = Pop
                /\ pc' = AfterReturn(Pop)
                /\ grids' = grids
    /\ UNCHANGED <<game, boards, givens, call, count, rv, ret, pre, gen, nops>>

\* An undo that leaves the candidate in place.
BacktrackUndo_Forgets ==
    /\ Searching("count_solutions")
    /\ pc = "ret"
    /\ stack' = [stack EXCEPT ![Len(stack)].num = Top.num + 1]
    /\ pc' = "loop"
    /\ UNCHANGED <<game, boards, grids, givens, call, count, rv, ret, pre, gen, nops>>

\* Solver.count_solutions, line 98: backtrack() has returned.
BacktrackUndo ==
    /\ Searching("count_solutions")
    /\ pc = "ret"
    /\ grids' = [grids EXCEPT ![Target][Top.row][Top.col] = 0]
    /\ stack' = [stack EXCEPT ![Len(stack)].num = Top.num + 1]
    /\ pc' = "loop"
    /\ UNCHANGED <<game, boards, givens, call, count, rv, ret, pre, gen, nops>>

----------------------------------------------------------------------------
(* Solver: the engine calls a client makes on the Board named "board".     *)

MaxLimit == 2

Call(op, search, target, limit) ==
    [op |-> op, search |-> search, obj |-> "board", target |-> target, limit |-> limit]

\* Solver.solve(board)
Solve ==
    /\ pc = "idle"
    /\ call' = Call("solve", "solve", "board", 0)
    /\ pre' = Snapshot
    /\ pc' = "call"
    /\ UNCHANGED <<game, boards, grids, givens, stack, count, rv, ret, gen, nops>>

SolveReturn ==
    /\ call.op = "solve"
    /\ pc = "returned"
    /\ pc' = "done"
    /\ ret' = rv
    /\ UNCHANGED <<game, boards, grids, givens, call, stack, count, rv, pre, gen, nops>>

\* Solver.count_solutions(board, limit), lines 81 and 100
CountSolutions(limit) ==
    /\ pc = "idle"
    /\ call' = Call("count_solutions", "count_solutions", "board", limit)
    /\ pre' = Snapshot
    /\ count' = 0
    /\ pc' = "call"
    /\ UNCHANGED <<game, boards, grids, givens, stack, rv, ret, gen, nops>>

CountSolutionsReturn ==
    /\ call.op = "count_solutions"
    /\ pc = "returned"
    /\ pc' = "done"
    /\ ret' = count
    /\ UNCHANGED <<game, boards, grids, givens, call, stack, count, rv, pre, gen, nops>>

\* Solver.get_hint(board), lines 110-113: the copy, and the call of solve on it.
GetHint ==
    /\ pc = "idle"
    /\ call' = Call("get_hint", "solve", "temp_board", 0)
    /\ pre' = Snapshot
    /\ LET new == CopyOf("board")
       IN  /\ boards' = boards @@ ("temp_board" :> new.board)
           /\ grids' = new.grids
           /\ givens' = new.givens
    /\ pc' = "call"
    /\ UNCHANGED <<game, stack, count, rv, ret, gen, nops>>

\* The first cell of the solved copy that holds a value.
FirstDifference_AnyFilled(board, temp) ==
    LET k == Min({i \in 0..(SIZE * SIZE - 1) : temp[i \div SIZE][i % SIZE] # 0})
    IN  <<k \div SIZE, k % SIZE, temp[k \div SIZE][k % SIZE]>>

\* Solver.get_hint, lines 113-120: the first cell, in row-major order, that
\* is empty in board and filled in the solved copy; None when there is none.
FirstDifference(board, temp) ==
    LET diff == {i \in 0..(SIZE * SIZE - 1) :
                    /\ board[i \div SIZE][i % SIZE] = 0
                    /\ temp[i \div SIZE][i % SIZE] # 0}
    IN  IF diff = {} THEN None
        ELSE LET k == Min(diff)
             IN  <<k \div SIZE, k % SIZE, temp[k \div SIZE][k % SIZE]>>

GetHintReturn ==
    /\ call.op = "get_hint"
    /\ pc = "returned"
    /\ ret' = IF rv = TRUE
              THEN FirstDifference(GridOf("board"), GridOf("temp_board"))
              ELSE None
    /\ boards' = Without("temp_board")
    /\ grids' = LiveGrids(Without("temp_board"))
    /\ givens' = LiveGivens(Without("temp_board"))
    /\ pc' = "done"
    /\ UNCHANGED <<game, call, stack, count, rv, pre, gen, nops>>

\* Solver.get_solution(board), lines 128-129
GetSolution ==
    /\ pc = "idle"
    /\ call' = Call("get_solution", "solve", "solution", 0)
    /\ pre' = Snapshot
    /\ LET new == CopyOf("board")
       IN  /\ boards' = boards @@ ("solution" :> new.board)
           /\ grids' = new.grids
           /\ givens' = new.givens
    /\ pc' = "call"
    /\ UNCHANGED <<game, stack, count, rv, ret, gen, nops>>

\* Solver.get_solution, lines 129-131: the solved copy, or None.
GetSolutionReturn ==
    /\ call.op = "get_solution"
    /\ pc = "returned"
    /\ IF rv = TRUE
       THEN /\ ret' = "solution"
            /\ UNCHANGED <<boards, grids, givens>>
       ELSE /\ ret' = None
            /\ boards' = Without("solution")
            /\ grids' = LiveGrids(Without("solution"))
            /\ givens' = LiveGivens(Without("solution"))
    /\ pc' = "done"
    /\ UNCHANGED <<game, call, stack, count, rv, pre, gen, nops>>

----------------------------------------------------------------------------
(* Solver.solve_with_randomness.  A frame is [row, col, numbers, i]:       *)
(* numbers is the invocation's shuffled list and i the index of the        *)
(* candidate it has placed or will test next.                              *)

\* The outcome of random.shuffle(list(range(1, 10))): the model draws it
\* among the rotations of 1..9.
Rot(k) == [i \in 1..9 |-> ((i - 1 + k) % 9) + 1]

\* Solver.solve_with_randomness, lines 45-52: the start of an invocation.
RandEnter ==
    /\ Searching("solve_with_randomness")
    /\ pc = "call"
    /\ LET empty == FindEmptyCell(grids[Target])
       IN  IF empty = None
           THEN /\ pc' = AfterReturn(stack)
                /\ stack' = stack
                /\ rv' = TRUE
           ELSE /\ stack' = Append(stack, [row |-> empty[1], col |-> empty[2],
                                           numbers |-> Rot(gen.shift), i |-> 1])
                /\ pc' = "loop"
                /\ rv' = rv
    /\ UNCHANGED <<game, boards, grids, givens, call, count, ret, pre, gen, nops>>

\* Solver.solve_with_randomness, lines 54-58 and 63.
RandTry ==
    /\ Searching("solve_with_randomness")
    /\ pc = "loop"
    /\ LET j == FirstValidIn(grids[Target], Top.row, Top.col, Top.numbers, Top.i)
       IN  IF j <= 9
           THEN /\ grids' = [grids EXCEPT ![Target][Top.row][Top.col] = Top.numbers[j]]
                /\ stack' = [stack EXCEPT ![Len(stack)].i = j]
                /\ pc' = "call"
                /\ rv' = rv
           ELSE /\ stack' = Pop
                /\ pc' = AfterReturn(Pop)
                /\ grids' = grids
                /\ rv' = FALSE
    /\ UNCHANGED <<game, boards, givens, call, count, ret, pre, gen, nops>>

\* Solver.solve_with_randomness, lines 58-61.
RandBack ==
    /\ Searching("solve_with_randomness")
    /\ pc = "ret"
    /\ IF rv = TRUE
       THEN /\ stack' = Pop
            /\ pc' = AfterReturn(Pop)
            /\ grids' = grids
       ELSE /\ grids' = [grids EXCEPT ![Target][Top.row][Top.col] = 0]
            /\ stack' = [stack EXCEPT ![Len(stack)].i = Top.i + 1]
            /\ pc' = "loop"
    /\ UNCHANGED <<game, boards, givens, call, count, rv, ret, pre, gen, nops>>

----------------------------------------------------------------------------
(* Generator.                                                              *)

EASY == "easy"
MEDIUM == "medium"
HARD == "hard"
EXPERT == "expert"

\* Difficulty.REMOVE_COUNT
REMOVE_COUNT ==
    [d \in {EASY, MEDIUM, HARD, EXPERT} |->
        CASE d = EASY   -> <<40, 45>>
          [] d = MEDIUM -> <<46, 49>>
          [] d = HARD   -> <<50, 53>>
          [] d = EXPERT -> <<54, 58>>]

\* Difficulty.REMOVE_COUNT.get(difficulty, Difficulty.REMOVE_COUNT[Difficulty.EASY])
RemoveRange(difficulty) ==
    IF difficulty \in DOMAIN REMOVE_COUNT
    THEN REMOVE_COUNT[difficulty]
    ELSE REMOVE_COUNT[EASY]

\* The outcomes of the random module the model draws from, one record for a
\* whole call of generate: the rotation each of the three diagonal boxes is
\* filled with, the rotation every shuffle of solve_with_randomness yields,
\* and the shuffled positions, which are popped in the order
\* (step * i + first) % 81, i = 0, 1, ...
RandomSources ==
    { [boxes |-> <<0, 1, 3>>, shift |-> 0, step |-> 80, first |-> 26],
      [boxes |-> <<0, 1, 3>>, shift |-> 0, step |-> 31, first |-> 66] }

\* random.randint(min_remove, max_remove): the model draws the two ends of
\* the range.
Draws(range) == {range[1], range[2]}

Difficulties == {EASY, MEDIUM, HARD, EXPERT}

\* positions after random.shuffle: a list popped from its end.
Shuffled(src) ==
    [k \in 1..(SIZE * SIZE) |->
        LET cell == (src.step * (SIZE * SIZE - k) + src.first) % (SIZE * SIZE)
        IN  <<cell \div SIZE, cell % SIZE>>]

\* A seed phase that fills the three boxes of the first band.
FillDiagonalBoxes_FirstBand(g, shifts) ==
    [r \in Idx |-> [c \in Idx |->
        IF r \div BOX_SIZE = 0
        THEN Rot(shifts[(c \div BOX_SIZE) + 1])[(r % BOX_SIZE) * BOX_SIZE + (c % BOX_SIZE) + 1]
        ELSE g[r][c]]]

\* Generator._fill_diagonal_boxes on an empty grid: box b holds numbers[idx]
\* at its idx-th cell in row-major order.
FillDiagonalBoxes(g, shifts) ==
    [r \in Idx |-> [c \in Idx |->
        IF r \div BOX_SIZE = c \div BOX_SIZE
        THEN Rot(shifts[(r \div BOX_SIZE) + 1])[(r % BOX_SIZE) * BOX_SIZE + (c % BOX_SIZE) + 1]
        ELSE g[r][c]]]

\* Generator.generate, line 41, to the call of solve_with_randomness in
\* _generate_complete_board (lines 62-68).
Generate(difficulty) ==
    /\ pc = "idle"
    /\ \E src \in RandomSources :
          /\ gen' = [difficulty |-> difficulty, shift |-> src.shift, src |-> src,
                     count |-> 0, positions |-> <<>>, removed |-> 0, attempts |-> 0,
                     max_attempts |-> 0, row |-> 0, col |-> 0, backup |-> 0,
                     unique |-> {}]
          /\ grids' = grids @@ (NewRef(grids) :> FillDiagonalBoxes(EmptyGrid, src.boxes))
    /\ boards' = boards @@ ("board" :> [grid |-> NewRef(grids), given |-> NewRef(givens)])
    /\ givens' = givens @@ (NewRef(givens) :> NoGiven)
    /\ call' = [op |-> "generate", search |-> "solve_with_randomness", obj |-> "board",
                target |-> "board", limit |-> 0]
    /\ pre' = Snapshot
    /\ pc' = "call"
    /\ UNCHANGED <<game, stack, count, rv, ret, nops>>

\* Generator.generate, lines 44-49, and _remove_cells, lines 101-106.
\* unique holds the last grid of the board that is known to have exactly one
\* completion: the complete grid, then every grid count_solutions counted 1 on.
StartRemoval ==
    /\ call.op = "generate"
    /\ call.search = "solve_with_randomness"
    /\ pc = "returned"
    /\ \E num_to_remove \in Draws(RemoveRange(gen.difficulty)) :
          gen' = [gen EXCEPT !.count = num_to_remove,
                             !.positions = Shuffled(gen.src),
                             !.removed = 0,
                             !.attempts = 0,
                             !.max_attempts = num_to_remove * 3,
                             !.unique = IF IsComplete(GridOf("board"))
                                        THEN {GridOf("board")} ELSE {}]
    /\ pc' = "remove"
    /\ UNCHANGED <<game, boards, grids, givens, call, stack, count, rv, ret, pre, nops>>

\* A loop that stops one removal short of the target.
Removing_OneLess ==
    /\ gen.removed + 1 < gen.count
    /\ gen.attempts < gen.max_attempts
    /\ gen.positions # <<>>

\* A loop that goes on once the target is reached.
Removing_OneMore ==
    /\ gen.removed <= gen.count
    /\ gen.attempts < gen.max_attempts
    /\ gen.positions # <<>>

\* The condition of the while loop of _remove_cells, and the break at line 110.
Removing ==
    /\ gen.removed < gen.count
    /\ gen.attempts < gen.max_attempts
    /\ gen.positions # <<>>

\* _remove_cells, lines 112-124: one attempt, to the call of count_solutions.
RemoveTry ==
    /\ call.op = "generate"
    /\ pc = "remove"
    /\ Removing
    /\ LET cell == gen.positions[Len(gen.positions)]
           row == cell[1]
           col == cell[2]
           g == NewRef(grids)
           v == NewRef(givens)
           emptied == [GridOf("board") EXCEPT ![row][col] = 0]
       IN  /\ gen' = [gen EXCEPT !.positions = SubSeq(@, 1, Len(@) - 1),
                                 !.attempts = @ + 1,
                                 !.row = row,
                                 !.col = col,
                                 !.backup = GridOf("board")[row][col]]
           /\ grids' = [grids EXCEPT ![boards["board"].grid] = emptied] @@ (g :> emptied)
           /\ givens' = givens @@ (v :> GivenOf("board"))
           /\ boards' = boards @@ ("board_copy" :> [grid |-> g, given |-> v])
    /\ call' = [call EXCEPT !.search = "count_solutions", !.target = "board_copy", !.limit = 2]
    /\ count' = 0
    /\ pc' = "call"
    /\ UNCHANGED <<game, stack, rv, ret, pre, nops>>

\* A removal kept whenever the puzzle can still be solved.
Keep_AnySolution(solution_count) == solution_count >= 1

\* _remove_cells, line 126
Keep(solution_count) == solution_count = 1

\* A decision that puts the value back even when the removal is counted.
RemoveDecide_Refills ==
    /\ call.op = "generate"
    /\ call.search = "count_solutions"
    /\ pc = "returned"
    /\ gen' = IF Keep(count) THEN [gen EXCEPT !.removed = @ + 1] ELSE gen
    /\ grids' = [LiveGrids(Without("board_copy")) EXCEPT
                    ![boards["board"].grid][gen.row][gen.col] = gen.backup]
    /\ boards' = Without("board_copy")
    /\ givens' = LiveGivens(Without("board_copy"))
    /\ pc' = "remove"
    /\ UNCHANGED <<game, call, stack, count, rv, ret, pre, nops>>

\* _remove_cells, lines 124-131: count_solutions has returned.
RemoveDecide ==
    /\ call.op = "generate"
    /\ call.search = "count_solutions"
    /\ pc = "returned"
    /\ IF Keep(count)
       THEN /\ gen' = [gen EXCEPT !.removed = @ + 1,
                                  !.unique = IF count = 1 THEN {GridOf("board_copy")} ELSE @]
            /\ grids' = LiveGrids(Without("board_copy"))
       ELSE /\ gen' = gen
            /\ grids' = [LiveGrids(Without("board_copy")) EXCEPT
                            ![boards["board"].grid][gen.row][gen.col] = gen.backup]
    /\ boards' = Without("board_copy")
    /\ givens' = LiveGivens(Without("board_copy"))
    /\ pc' = "remove"
    /\ UNCHANGED <<game, call, stack, count, rv, ret, pre, nops>>

\* A marking of every cell.
MarkNonZero_All(g, v) == [r \in Idx |-> [c \in Idx |-> TRUE]]

\* Generator.generate, lines 52-55 (and generate_simple, lines 155-158): the
\* given list v after mark_given on every cell of g that is not 0.
MarkNonZero(g, v) ==
    [r \in Idx |-> [c \in Idx |-> IF g[r][c] # 0 THEN TRUE ELSE v[r][c]]]

\* Generator.generate, lines 51-57: the loop of _remove_cells is over.
Finalize ==
    /\ call.op = "generate"
    /\ pc = "remove"
    /\ ~Removing
    /\ givens' = [givens EXCEPT ![boards["board"].given] =
                    MarkNonZero(GridOf("board"), GivenOf("board"))]
    /\ ret' = "board"
    /\ pc' = "done"
    /\ UNCHANGED <<game, boards, grids, call, stack, count, rv, pre, gen, nops>>

\* Generator.generate_simple, line 139, to the call of solve_with_randomness
\* in _generate_complete_board (lines 62-68).
GenerateSimple(difficulty) ==
    /\ pc = "idle"
    /\ \E src \in RandomSources :
          /\ gen' = [difficulty |-> difficulty, shift |-> src.shift, src |-> src,
                     count |-> 0, positions |-> <<>>, removed |-> 0, attempts |-> 0,
                     max_attempts |-> 0, row |-> 0, col |-> 0, backup |-> 0,
                     unique |-> {}]
          /\ grids' = grids @@ (NewRef(grids) :> FillDiagonalBoxes(EmptyGrid, src.boxes))
    /\ boards' = boards @@ ("board" :> [grid |-> NewRef(grids), given |-> NewRef(givens)])
    /\ givens' = givens @@ (NewRef(givens) :> NoGiven)
    /\ call' = [op |-> "generate_simple", search |-> "solve_with_randomness",
                obj |-> "board", target |-> "board", limit |-> 0]
    /\ pre' = Snapshot
    /\ pc' = "call"
    /\ UNCHANGED <<game, stack, count, rv, ret, nops>>

\* A loop that empties positions[0] every time.
SimplePositions_Repeats(positions, n) == {positions[1]}

\* generate_simple, lines 150-152: the cells positions[0] .. positions[n-1].
SimplePositions(positions, n) == {positions[i] : i \in 1..n}

\* generate_simple, lines 141-160.  unique holds the complete grid the
\* cells are removed from.
SimpleFinish ==
    /\ call.op = "generate_simple"
    /\ pc = "returned"
    /\ \E num_to_remove \in Draws(RemoveRange(gen.difficulty)) :
          LET full == GridOf("board")
              cut == SimplePositions(Shuffled(gen.src), num_to_remove)
              g == [r \in Idx |-> [c \in Idx |->
                       IF <<r, c>> \in cut THEN 0 ELSE full[r][c]]]
          IN  /\ gen' = [gen EXCEPT !.count = num_to_remove,
                                    !.positions = Shuffled(gen.src),
                                    !.unique = IF IsComplete(full) THEN {full} ELSE {}]
              /\ grids' = [grids EXCEPT ![boards["board"].grid] = g]
              /\ givens' = [givens EXCEPT ![boards["board"].given] =
                               MarkNonZero(g, GivenOf("board"))]
    /\ ret' = "board"
    /\ pc' = "done"
    /\ UNCHANGED <<game, boards, call, stack, count, rv, pre, nops>>

InitGenerator ==
    /\ boards = <<>>
    /\ grids = <<>>
    /\ givens = <<>>
    /\ call = NoCall
    /\ pc = "idle"
    /\ stack = <<>>
    /\ count = 0
    /\ rv = None
    /\ ret = None
    /\ pre = [boards |-> boards, grids |-> grids, givens |-> givens]
    /\ gen = NoGen
    /\ nops = 0
    /\ game = NoGame

NextGenerator ==
    \/ \E difficulty \in Difficulties : Generate(difficulty)
    \/ RandEnter
    \/ RandTry
    \/ RandBack
    \/ StartRemoval
    \/ RemoveTry
    \/ BacktrackEnter
    \/ BacktrackTry
    \/ BacktrackUndo
    \/ RemoveDecide
    \/ Finalize
    \/ \E difficulty \in Difficulties : GenerateSimple(difficulty)
    \/ SimpleFinish

SpecGenerator == InitGenerator /\ [][NextGenerator]_vars

----------------------------------------------------------------------------
(* The boards the Solver is called on.                                     *)

ToGrid(rows) == [r \in Idx |-> [c \in Idx |-> rows[r + 1][c + 1]]]

\* The puzzle of tests/test_solver.py.
Puzzle ==
    ToGrid(<< <<5, 3, 0, 0, 7, 0, 0, 0, 0>>,
              <<6, 0, 0, 1, 9, 5, 0, 0, 0>>,
              <<0, 9, 8, 0, 0, 0, 0, 6, 0>>,
              <<8, 0, 0, 0, 6, 0, 0, 0, 3>>,
              <<4, 0, 0, 8, 0, 3, 0, 0, 1>>,
              <<7, 0, 0, 0, 2, 0, 0, 0, 6>>,
              <<0, 6, 0, 0, 0, 0, 2, 8, 0>>,
              <<0, 0, 0, 4, 1, 9, 0, 0, 5>>,
              <<0, 0, 0, 0, 8, 0, 0, 7, 9>> >>)

\* Its solution.
Solved ==
    ToGrid(<< <<5, 3, 4, 6, 7, 8, 9, 1, 2>>,
              <<6, 7, 2, 1, 9, 5, 3, 4, 8>>,
              <<1, 9, 8, 3, 4, 2, 5, 6, 7>>,
              <<8, 5, 9, 7, 6, 1, 4, 2, 3>>,
              <<4, 2, 6, 8, 5, 3, 7, 9, 1>>,
              <<7, 1, 3, 9, 2, 4, 8, 5, 6>>,
              <<9, 6, 1, 5, 3, 7, 2, 8, 4>>,
              <<2, 8, 7, 4, 1, 9, 6, 3, 5>>,
              <<3, 4, 5, 2, 8, 6, 1, 7, 9>> >>)

\* The cells a player has been at, in a game on Solved: each holds its
\* solution value, or is empty, or holds a value the player has entered.
\* The first four hold 6 7 / 7 6 in Solved, so that emptying them leaves two
\* completions, and entering 7 6 / 6 7 gives the other one.
PlayerCells == {<<0, 3>>, <<0, 4>>, <<3, 3>>, <<3, 4>>, <<8, 8>>}
Entered == [p \in PlayerCells |->
              CASE Solved[p[1]][p[2]] = 6 -> 7
                [] Solved[p[1]][p[2]] = 7 -> 6
                [] OTHER -> 1]

\* How many cells of PlayerCells may be empty.
MaxEmpty == 4

EmptyCellsOf(g) == {p \in Cells : g[p[1]][p[2]] = 0}

Played ==
    {g \in { [r \in Idx |-> [c \in Idx |->
                IF <<r, c>> \in PlayerCells THEN f[<<r, c>>] ELSE Solved[r][c]]] :
             f \in [PlayerCells -> 0..9] } :
        /\ \A p \in PlayerCells : g[p[1]][p[2]] \in {0, Solved[p[1]][p[2]], Entered[p]}
        /\ Cardinality(EmptyCellsOf(g)) <= MaxEmpty}

Inputs == Played \cup {Puzzle, EmptyGrid}

\* The cells of Solved are given, but for the cells the player has been at.
GivenFor(g) ==
    [r \in Idx |-> [c \in Idx |->
        g \in Played /\ <<r, c>> \notin PlayerCells]]

InitSolver ==
    /\ boards = [b \in {"board"} |-> [grid |-> 1, given |-> 1]]
    /\ \E g \in Inputs :
          /\ grids = [i \in {1} |-> g]
          /\ givens = [i \in {1} |-> GivenFor(g)]
    /\ call = NoCall
    /\ pc = "idle"
    /\ stack = <<>>
    /\ count = 0
    /\ rv = None
    /\ ret = None
    /\ pre = [boards |-> boards, grids |-> grids, givens |-> givens]
    /\ gen = NoGen
    /\ nops = 0
    /\ game = NoGame

NextSolver ==
    \/ Solve
    \/ SolveEnter
    \/ SolveTry
    \/ SolveBack
    \/ SolveReturn
    \/ \E limit \in 0..MaxLimit : CountSolutions(limit)
    \/ BacktrackEnter
    \/ BacktrackTry
    \/ BacktrackUndo
    \/ CountSolutionsReturn
    \/ GetHint
    \/ GetHintReturn
    \/ GetSolution
    \/ GetSolutionReturn

SpecSolver == InitSolver /\ [][NextSolver]_vars

----------------------------------------------------------------------------
(* C1: Board.set on a cell that is not given returns True and the cell     *)
(* then reads the value set; on a given cell it returns False and no cell  *)
(* value and no given flag of the grid has changed.                        *)
C1_SetContract ==
    call.op = "set" =>
        IF pre.givens[pre.boards[call.obj].given][call.row][call.col]
        THEN /\ ret = FALSE
             /\ grids = pre.grids
             /\ givens = pre.givens
        ELSE /\ ret = TRUE
             /\ Get(call.obj, call.row, call.col) = call.value

\* Both cases of C1 have happened: a set refused on a given cell that
\* holds a value, after an earlier set of that cell succeeded.
C1_Witness ==
    /\ call.op = "set"
    /\ ret = FALSE
    /\ IsGiven(call.obj, call.row, call.col)
    /\ Get(call.obj, call.row, call.col) # 0
    /\ call.value # Get(call.obj, call.row, call.col)

----------------------------------------------------------------------------
(* C2: every grid Generator.generate returns has exactly one completion,   *)
(* and so has the board after every iteration of the removal loop: the     *)
(* board is the complete grid, or the grid count_solutions(copy, limit=2)  *)
(* last returned 1 on; a removal that counts otherwise has been restored.  *)
C2_UniqueAfterEveryIteration ==
    (call.op = "generate" /\ pc \in {"remove", "done"}) =>
        gen.unique = {GridOf("board")}

\* generate has returned a puzzle after the loop both kept removals and
\* restored some.
C2_Witness ==
    /\ call.op = "generate"
    /\ pc = "done"
    /\ gen.removed >= 40
    /\ gen.attempts > gen.removed
    /\ ~IsFilled(GridOf("board"))

----------------------------------------------------------------------------
\* The number of nonzero cells of the grid list g.
NonZero(g) == Cardinality({p \in Cells : g[p[1]][p[2]] # 0})

----------------------------------------------------------------------------
(* The vocabulary of the Solver's claims, defined without the Solver: what *)
(* a conflict is, and what the completions of a grid are.                  *)

\* The cells that share a row, a column or a box with p.
Peers ==
    [p \in Cells |->
        {q \in Cells \ {p} :
            \/ q[1] = p[1]
            \/ q[2] = p[2]
            \/ /\ q[1] \div BOX_SIZE = p[1] \div BOX_SIZE
               /\ q[2] \div BOX_SIZE = p[2] \div BOX_SIZE}]

\* No two filled cells of g that share a row, a column or a box hold the
\* same value.
ConflictFree(g) ==
    \A p \in Cells :
        g[p[1]][p[2]] # 0 =>
            \A q \in Peers[p] : g[q[1]][q[2]] # g[p[1]][p[2]]

\* The values no filled peer of the empty cell p holds.
CandidatesOf(g, p) == {v \in 1..9 : \A q \in Peers[p] : g[q[1]][q[2]] # v}

\* The conflict-free completions of g that keep its filled cells, each as
\* the values it gives the empty cells.
Completions(g) ==
    IF ~ConflictFree(g) THEN {}
    ELSE LET empty == EmptyCellsOf(g)
             values == UNION {CandidatesOf(g, p) : p \in empty}
         IN  {f \in [empty -> values] :
                 \A p \in empty :
                     /\ f[p] \in CandidatesOf(g, p)
                     /\ \A q \in Peers[p] \cap empty : f[q] # f[p]}

\* The filled cells of g hold what they hold in full.
Extends(full, g) ==
    \A p \in Cells : g[p[1]][p[2]] # 0 => full[p[1]][p[2]] = g[p[1]][p[2]]

\* g has a completion: Solved is one, or g is a grid of Played, few enough
\* of whose cells are empty to go through its completions.
HasCompletion(g) ==
    \/ /\ IsFilled(Solved)
       /\ ConflictFree(Solved)
       /\ Extends(Solved, g)
    \/ /\ g \in Played
       /\ Completions(g) # {}

\* g is a grid of Played that has no completion.
HasNoCompletion(g) == g \in Played /\ Completions(g) = {}

\* The first empty cell of g in row-major order.
FirstEmpty(g) ==
    CHOOSE p \in EmptyCellsOf(g) :
        \A q \in EmptyCellsOf(g) : SIZE * p[1] + p[2] <= SIZE * q[1] + q[2]

\* The grid and the given flags of the caller's board when the call was made.
PreGrid == pre.grids[pre.boards["board"].grid]
PreGiven == pre.givens[pre.boards["board"].given]

Returned(op) == pc = "done" /\ call.op = op

----------------------------------------------------------------------------
(* C4, as stated: whenever Solver.solve returns True, the grid it leaves   *)
(* satisfies is_complete(): every cell nonzero and no cell in conflict.    *)
C4_SolvedIsComplete ==
    (Returned("solve") /\ ret = TRUE) => IsComplete(GridOf("board"))

----------------------------------------------------------------------------
(* C5: Solver.solve returns a boolean, and True whenever the grid it is    *)
(* given has a conflict-free completion; when it returns False the grid    *)
(* has none and every candidate it placed has been taken back.             *)
C5_SolvableIsSolved ==
    Returned("solve") =>
        /\ ret \in BOOLEAN
        /\ HasCompletion(PreGrid) => ret = TRUE
        /\ ret = FALSE => GridOf("board") = PreGrid

\* solve has returned True on the puzzle of the tests, and has filled it.
C5_Witness ==
    /\ Returned("solve")
    /\ ret = TRUE
    /\ PreGrid = Puzzle
    /\ HasCompletion(PreGrid)
    /\ IsComplete(GridOf("board"))

----------------------------------------------------------------------------
\* count_solutions is at work, or has returned.
Counting == call.op = "count_solutions"

\* What C6 says of the counter and of the result, on a grid of Played whose
\* filled cells are conflict-free: the counter is at most limit, and the
\* result is min(limit, N).
CountIsMin ==
    Counting =>
        /\ count <= call.limit
        /\ (pc = "done" /\ PreGrid \in Played /\ ConflictFree(PreGrid)) =>
              ret = Min({call.limit, Cardinality(Completions(PreGrid))})

\* A step of the search that writes a value to a cell.
Places ==
    \E p \in Cells :
        /\ grids'[Target][p[1]][p[2]] # 0
        /\ grids'[Target][p[1]][p[2]] # grids[Target][p[1]][p[2]]

(* C6, as stated: count_solutions returns min(limit, N), the counter never *)
(* exceeds limit, and no placement is tried once the counter equals limit. *)
C6_NoPlacementAtLimit ==
    /\ []CountIsMin
    /\ [][(Counting /\ count = call.limit) => ~Places]_vars

(* C6, amended: count_solutions returns min(limit, N) and the counter      *)
(* never exceeds limit; once the counter equals limit it does not change   *)
(* and the search goes no deeper: an invocation of backtrack() started     *)
(* from then on returns at its first test.  (The loops of the invocations  *)
(* still open go on placing their remaining candidates.)                   *)
C6_NoDescentAtLimit ==
    /\ []CountIsMin
    /\ [][(Counting /\ count = call.limit) =>
              /\ count' = count
              /\ Len(stack') <= Len(stack)]_vars

\* The counter is at a limit of 1 or more, a candidate has been placed
\* since, and the invocation started on it is about to return at once.
C6_Witness ==
    /\ Counting
    /\ pc = "call"
    /\ call.limit >= 1
    /\ count = call.limit
    /\ stack # <<>>
    /\ ConflictFree(PreGrid)

----------------------------------------------------------------------------
(* C7: when count_solutions returns, every cell and every given flag of    *)
(* the board it was called on is as it was when the call was made, also    *)
(* when the search has stopped at the limit.                               *)
C7_CountRestoresGrid ==
    Returned("count_solutions") =>
        /\ boards = pre.boards
        /\ grids = pre.grids
        /\ givens = pre.givens

\* count_solutions has returned its limit on a grid with four empty cells
\* and more completions than the limit.
C7_Witness ==
    /\ Returned("count_solutions")
    /\ call.limit = 1
    /\ ret = 1
    /\ Cardinality(EmptyCellsOf(PreGrid)) = 4
    /\ Cardinality(Completions(PreGrid)) = 2

----------------------------------------------------------------------------
(* C8: get_hint and get_solution leave the board they are called on as it  *)
(* was, cells and given flags, whatever they return; the Board that        *)
(* get_solution returns holds lists of its own.                            *)
C8_CallerBoardUntouched ==
    (pc = "done" /\ call.op \in {"get_hint", "get_solution"}) =>
        /\ boards["board"] = pre.boards["board"]
        /\ GridOf("board") = PreGrid
        /\ GivenOf("board") = PreGiven
        /\ (call.op = "get_solution" /\ ret # None) =>
              /\ ret \in DOMAIN boards
              /\ boards[ret].grid # boards["board"].grid
              /\ boards[ret].given # boards["board"].given

\* get_solution has returned a Board whose grid differs from the caller's.
C8_Witness ==
    /\ Returned("get_solution")
    /\ ret = "solution"
    /\ GridOf("solution") # GridOf("board")
    /\ IsComplete(GridOf("solution"))
    /\ EmptyCellsOf(GridOf("board")) # {}

----------------------------------------------------------------------------
(* C9: on a grid with an empty cell and a conflict-free completion,        *)
(* get_hint returns (r, c, v) where (r, c) is the first empty cell in      *)
(* row-major order, v is in 1..9 and is_valid_move(r, c, v) holds on the   *)
(* grid.                                                                   *)
C9_HintAtFirstEmpty ==
    (/\ Returned("get_hint")
     /\ EmptyCellsOf(PreGrid) # {}
     /\ HasCompletion(PreGrid)) =>
        /\ ret \in Idx \X Idx \X (1..9)
        /\ <<ret[1], ret[2]>> = FirstEmpty(PreGrid)
        /\ IsValidMove(PreGrid, ret[1], ret[2], ret[3])

\* get_hint has returned the hint of the puzzle of the tests: 4 at (0, 2).
C9_Witness ==
    /\ Returned("get_hint")
    /\ PreGrid = Puzzle
    /\ ret = <<0, 2, 4>>

----------------------------------------------------------------------------
(* C10, as stated: get_hint and get_solution return None whenever the      *)
(* board has no conflict-free completion, also when entries already on it  *)
(* conflict.                                                               *)
C10_NoCompletionNoHint ==
    (/\ pc = "done"
     /\ call.op \in {"get_hint", "get_solution"}
     /\ HasNoCompletion(PreGrid)) =>
        ret = None

----------------------------------------------------------------------------
(* Board: the queries, asked by a client of a Board none of whose cells is *)
(* given, as the Boards of tests/test_board.py are.  The client may first  *)
(* erase one cell of a complete grid; the model follows it up to its       *)
(* first query.                                                            *)

Query(op, row, col, num) ==
    [op |-> op, obj |-> "board", row |-> row, col |-> col, num |-> num]

\* Board.is_complete()
AskIsComplete ==
    /\ pc = "idle"
    /\ call' = Query("is_complete", 0, 0, 0)
    /\ pre' = Snapshot
    /\ ret' = IsComplete(GridOf("board"))
    /\ pc' = "done"
    /\ UNCHANGED <<game, boards, grids, givens, stack, count, rv, gen, nops>>

\* Board.is_valid_move(row, col, num)
AskIsValidMove(row, col, num) ==
    /\ pc = "idle"
    /\ call' = Query("is_valid_move", row, col, num)
    /\ pre' = Snapshot
    /\ ret' = IsValidMove(GridOf("board"), row, col, num)
    /\ pc' = "done"
    /\ UNCHANGED <<game, boards, grids, givens, stack, count, rv, gen, nops>>

\* Board.get_conflicts(row, col)
AskGetConflicts(row, col) ==
    /\ pc = "idle"
    /\ call' = Query("get_conflicts", row, col, 0)
    /\ pre' = Snapshot
    /\ ret' = GetConflicts(GridOf("board"), row, col)
    /\ pc' = "done"
    /\ UNCHANGED <<game, boards, grids, givens, stack, count, rv, gen, nops>>

\* set(row, col, 0) on a complete grid.
Erase(row, col) ==
    /\ pc = "idle"
    /\ IsComplete(GridOf("board")) = TRUE
    /\ Set("board", row, col, 0)

InitQueries ==
    /\ boards = [b \in {"board"} |-> [grid |-> 1, given |-> 1]]
    /\ \E g \in Inputs : grids = [i \in {1} |-> g]
    /\ givens = [i \in {1} |-> NoGiven]
    /\ call = NoCall
    /\ pc = "idle"
    /\ stack = <<>>
    /\ count = 0
    /\ rv = None
    /\ ret = None
    /\ pre = [boards |-> boards, grids |-> grids, givens |-> givens]
    /\ gen = NoGen
    /\ nops = 0
    /\ game = NoGame

NextQueries ==
    \/ AskIsComplete
    \/ \E cell \in Cells, num \in 1..9 : AskIsValidMove(cell[1], cell[2], num)
    \/ \E cell \in Cells : AskGetConflicts(cell[1], cell[2])
    \/ \E cell \in Cells : Erase(cell[1], cell[2])

SpecQueries == InitQueries /\ [][NextQueries]_vars

----------------------------------------------------------------------------
(* C11: Board.is_complete() is True iff every cell is nonzero and no two   *)
(* cells that share a row, a column or a box hold the same value; it is    *)
(* True of a complete conflict-free grid and False once one of its cells   *)
(* has been set to 0.                                                      *)
C11_CompleteIffFilledAndConflictFree ==
    call.op = "is_complete" =>
        /\ ret = (IsFilled(GridOf("board")) /\ ConflictFree(GridOf("board")))
        /\ (EmptyCellsOf(GridOf("board")) = {} /\ ConflictFree(GridOf("board"))) => ret = TRUE
        /\ nops = 1 => ret = FALSE

\* is_complete has answered False on a grid that was complete until one
\* cell of it was set to 0.
C11_Witness ==
    /\ call.op = "is_complete"
    /\ ret = FALSE
    /\ nops = 1
    /\ Cardinality(EmptyCellsOf(GridOf("board"))) = 1
    /\ ConflictFree(GridOf("board"))

----------------------------------------------------------------------------
(* C12: Board.is_valid_move(r, c, v) is True iff no cell other than (r, c) *)
(* in row r, column c or the box of (r, c) holds v; what (r, c) itself     *)
(* holds is not counted.                                                   *)
C12_ValidIffNoPeerHolds ==
    call.op = "is_valid_move" =>
        ret = (\A q \in Peers[<<call.row, call.col>>] :
                  GridOf("board")[q[1]][q[2]] # call.num)

\* is_valid_move has accepted the value the cell itself holds.
C12_Witness ==
    /\ call.op = "is_valid_move"
    /\ ret = TRUE
    /\ Get("board", call.row, call.col) = call.num

----------------------------------------------------------------------------
(* C13: Board.get_conflicts(r, c) is the empty set when (r, c) holds 0,    *)
(* and otherwise the set of the cells other than (r, c) in its row, column *)
(* or box that hold the value (r, c) holds; it never holds (r, c), and the *)
(* grid is as it was.                                                      *)
C13_ConflictsArePeersWithValue ==
    call.op = "get_conflicts" =>
        LET g == GridOf("board")
            p == <<call.row, call.col>>
        IN  /\ ret = IF g[p[1]][p[2]] = 0 THEN {}
                     ELSE {q \in Peers[p] : g[q[1]][q[2]] = g[p[1]][p[2]]}
            /\ p \notin ret
            /\ grids = pre.grids
            /\ givens = pre.givens

\* get_conflicts has found conflicts both in the row and in the column.
C13_Witness ==
    /\ call.op = "get_conflicts"
    /\ \E q \in ret : q[1] = call.row
    /\ \E q \in ret : q[2] = call.col

----------------------------------------------------------------------------
(* Board: the operations that make or replace list objects, made by a      *)
(* client that holds up to three Boards, "board", "copy" and "restored",   *)
(* and the dict "data" that to_dict returned.  A dict holds the two lists  *)
(* as a Board does, so it is kept in boards as well.                       *)

\* The Boards the client holds.
BoardNames == DOMAIN boards \ {"data"}

\* Board.copy(), of "board"
Copy ==
    /\ pc = "idle"
    /\ nops < MaxOps
    /\ "copy" \notin DOMAIN boards
    /\ call' = [op |-> "copy", obj |-> "copy"]
    /\ pre' = Snapshot
    /\ LET new == CopyOf("board")
       IN  /\ boards' = boards @@ ("copy" :> new.board)
           /\ grids' = new.grids
           /\ givens' = new.givens
    /\ ret' = "copy"
    /\ nops' = nops + 1
    /\ UNCHANGED <<game, pc, stack, count, rv, gen>>

\* Board.clear(): the Board holds two new lists; the lists it held live on
\* when something else holds them.
Clear(b) ==
    /\ pc = "idle"
    /\ nops < MaxOps
    /\ b \in BoardNames
    /\ call' = [op |-> "clear", obj |-> b]
    /\ pre' = Snapshot
    /\ LET g == NewRef(grids)
           v == NewRef(givens)
           bs == [boards EXCEPT ![b] = [grid |-> g, given |-> v]]
       IN  /\ boards' = bs
           /\ grids' = [i \in {bs[n].grid : n \in DOMAIN bs} |->
                           IF i = g THEN EmptyGrid ELSE grids[i]]
           /\ givens' = [i \in {bs[n].given : n \in DOMAIN bs} |->
                           IF i = v THEN NoGiven ELSE givens[i]]
    /\ ret' = None
    /\ nops' = nops + 1
    /\ UNCHANGED <<game, pc, stack, count, rv, gen>>

\* Board.to_dict(), of "board": the dict holds the Board's own lists.
ToDict ==
    /\ pc = "idle"
    /\ nops < MaxOps
    /\ "data" \notin DOMAIN boards
    /\ call' = [op |-> "to_dict", obj |-> "board"]
    /\ pre' = Snapshot
    /\ boards' = boards @@ ("data" :> [grid |-> boards["board"].grid,
                                       given |-> boards["board"].given])
    /\ ret' = "data"
    /\ nops' = nops + 1
    /\ UNCHANGED <<game, grids, givens, pc, stack, count, rv, gen>>

\* A from_dict that leaves the Board the given list __init__ made.
FromDictOf_KeepsOwnGiven(data) ==
    LET v == NewRef(givens)
    IN  [board  |-> [grid |-> data.grid, given |-> v],
         grids  |-> grids,
         givens |-> givens @@ (v :> NoGiven)]

\* Board.from_dict(data): a new Board that holds the lists of the dict.
FromDictOf(data) ==
    [board  |-> [grid |-> data.grid, given |-> data.given],
     grids  |-> grids,
     givens |-> givens]

\* Board.from_dict(data), data being the dict to_dict returned; the call
\* records whether to_dict was the operation just before.
FromDict ==
    /\ pc = "idle"
    /\ nops < MaxOps
    /\ "data" \in DOMAIN boards
    /\ "restored" \notin DOMAIN boards
    /\ call' = [op |-> "from_dict", obj |-> "restored", fresh |-> call.op = "to_dict"]
    /\ pre' = Snapshot
    /\ LET new == FromDictOf(boards["data"])
       IN  /\ boards' = boards @@ ("restored" :> new.board)
           /\ grids' = new.grids
           /\ givens' = new.givens
    /\ ret' = "restored"
    /\ nops' = nops + 1
    /\ UNCHANGED <<game, pc, stack, count, rv, gen>>

\* Solver.solve(b), on any Board the client holds that has at most MaxEmpty
\* empty cells
SolveOn(b) ==
    /\ pc = "idle"
    /\ b \in BoardNames
    /\ Cardinality(EmptyCellsOf(GridOf(b))) <= MaxEmpty
    /\ call' = [op |-> "solve", search |-> "solve", obj |-> b, target |-> b, limit |-> 0]
    /\ pre' = Snapshot
    /\ pc' = "call"
    /\ UNCHANGED <<game, boards, grids, givens, stack, count, rv, ret, gen, nops>>

\* The grid of Solved with the cells of S empty.
Emptied(S) == [r \in Idx |-> [c \in Idx |-> IF <<r, c>> \in S THEN 0 ELSE Solved[r][c]]]

\* The grids the client starts from, and the cells and values it uses.
ObjectInputs == {Emptied({<<0, 3>>, <<0, 4>>, <<3, 3>>, <<3, 4>>}), Emptied({<<8, 8>>})}
ObjectCells == {<<0, 3>>, <<8, 8>>}
ObjectValues == {0, 7}
AllNames == {"board", "copy", "restored"}

InitObjects ==
    /\ boards = [b \in {"board"} |-> [grid |-> 1, given |-> 1]]
    /\ \E g \in ObjectInputs :
          /\ grids = [i \in {1} |-> g]
          /\ givens = [i \in {1} |-> GivenFor(g)]
    /\ call = NoCall
    /\ pc = "idle"
    /\ stack = <<>>
    /\ count = 0
    /\ rv = None
    /\ ret = None
    /\ pre = [boards |-> boards, grids |-> grids, givens |-> givens]
    /\ gen = NoGen
    /\ nops = 0
    /\ game = NoGame

NextObjects ==
    \/ \E b \in AllNames, cell \in ObjectCells, value \in ObjectValues :
          Set(b, cell[1], cell[2], value)
    \/ \E b \in AllNames, cell \in ObjectCells : MarkGiven(b, cell[1], cell[2])
    \/ \E b \in AllNames : Clear(b)
    \/ Copy
    \/ ToDict
    \/ FromDict
    \/ \E b \in AllNames : SolveOn(b)
    \/ SolveEnter
    \/ SolveTry
    \/ SolveBack
    \/ SolveReturn

SpecObjects == InitObjects /\ [][NextObjects]_vars

----------------------------------------------------------------------------
\* Right after copy(), the copy equals the original, cell for cell and flag
\* for flag.
CopyEquals ==
    call.op = "copy" =>
        /\ GridOf("copy") = GridOf("board")
        /\ GivenOf("copy") = GivenOf("board")

\* The step is made on the Board a and leaves the lists of the Board b as
\* they were.
LeavesAlone(a, b) ==
    call'.obj = a =>
        /\ grids'[boards'[b].grid] = GridOf(b)
        /\ givens'[boards'[b].given] = GivenOf(b)

(* C14: Board.copy() returns a Board equal to the original in every cell   *)
(* and given flag, and from then on no set, mark_given, clear or solver    *)
(* write made on one of the two changes a cell or a flag of the other.     *)
C14_CopyIsIndependent ==
    /\ []CopyEquals
    /\ [][("copy" \in DOMAIN boards) =>
              /\ LeavesAlone("copy", "board")
              /\ LeavesAlone("board", "copy")]_vars

\* The copy and the original have since been written apart, cells and flags.
C14_Witness ==
    /\ "copy" \in DOMAIN boards
    /\ GridOf("copy") # GridOf("board")
    /\ GivenOf("copy") # GivenOf("board")
    /\ boards["copy"].grid # boards["board"].grid

----------------------------------------------------------------------------
(* C15: Board.from_dict(G.to_dict()) is a Board equal to G cell for cell   *)
(* and given flag for given flag, and G is as it was.                      *)
C15_RoundTrip ==
    (call.op = "from_dict" /\ call.fresh) =>
        /\ GridOf("restored") = GridOf("board")
        /\ GivenOf("restored") = GivenOf("board")
        /\ GridOf("board") = pre.grids[pre.boards["board"].grid]
        /\ GivenOf("board") = pre.givens[pre.boards["board"].given]

\* A Board whose cell (0, 3) the client has set to 7 has been through
\* to_dict and from_dict, with its given cells and the others.
C15_Witness ==
    /\ call.op = "from_dict"
    /\ call.fresh
    /\ Get("restored", 0, 3) = 7
    /\ IsGiven("restored", 0, 0)
    /\ ~IsGiven("restored", 8, 8)

----------------------------------------------------------------------------
(* C30: the Board that Board.from_dict(G.to_dict()) returns is independent *)
(* of G: no later set, mark_given, clear or solver write on the restored   *)
(* Board changes a cell or a given flag of G, and no later write on G      *)
(* changes the restored Board.                                             *)
C30_RestoredIsIndependent ==
    [][("restored" \in DOMAIN boards) =>
          /\ LeavesAlone("restored", "board")
          /\ LeavesAlone("board", "restored")]_vars

----------------------------------------------------------------------------
(* GameState.load_from_file, as far as the Board goes.  A save file is     *)
(* there or not, parses as JSON or not, and holds the keys from_dict looks *)
(* up or not; its two arrays are what json.load makes of them.             *)

\* The arrays a save file may hold: those of a game on Solved, with the
\* value x at (0, 0), cut or padded to rows by cols.
SavedGrid(rows, cols, x) ==
    [r \in 0..(rows - 1) |-> [c \in 0..(cols - 1) |->
        IF <<r, c>> = <<0, 0>> THEN x
        ELSE IF r \in Idx /\ c \in Idx THEN Emptied({<<8, 8>>})[r][c]
        ELSE 0]]

SavedGiven(rows) ==
    [r \in 0..(rows - 1) |-> [c \in Idx |-> <<r, c>> # <<8, 8>>]]

SaveFiles ==
    { [exists |-> TRUE, json |-> TRUE, keys |-> TRUE,
       grid |-> SavedGrid(rows, cols, x), given |-> SavedGiven(vrows)] :
          rows \in {SIZE - 1, SIZE, SIZE + 1}, cols \in {SIZE - 1, SIZE, SIZE + 1},
          x \in -1..12, vrows \in {SIZE - 1, SIZE} }
    \cup
    { [exists |-> e, json |-> j, keys |-> k,
       grid |-> SavedGrid(SIZE, SIZE, 5), given |-> SavedGiven(SIZE)] :
          e \in BOOLEAN, j \in BOOLEAN, k \in BOOLEAN }

\* GameState.load_from_file(filepath), lines 168-176, with Board.from_dict:
\* None when the file is missing, is not JSON or lacks a key; otherwise a
\* GameState on a Board that holds the two arrays of the file.
LoadFromFile(file) ==
    /\ pc = "idle"
    /\ call' = [op |-> "load_from_file", obj |-> "board", file |-> file]
    /\ pre' = Snapshot
    /\ IF file.exists /\ file.json /\ file.keys
       THEN LET g == NewRef(grids)
                v == NewRef(givens)
                new == FromDictOf([grid |-> g, given |-> v])
            IN  /\ boards' = boards @@ ("board" :> new.board)
                /\ grids' = grids @@ (g :> file.grid)
                /\ givens' = givens @@ (v :> file.given)
                /\ ret' = "game_state"
       ELSE /\ ret' = None
            /\ UNCHANGED <<boards, grids, givens>>
    /\ pc' = "done"
    /\ UNCHANGED <<game, stack, count, rv, gen, nops>>

InitLoad ==
    /\ boards = <<>>
    /\ grids = <<>>
    /\ givens = <<>>
    /\ call = NoCall
    /\ pc = "idle"
    /\ stack = <<>>
    /\ count = 0
    /\ rv = None
    /\ ret = None
    /\ pre = [boards |-> boards, grids |-> grids, givens |-> givens]
    /\ gen = NoGen
    /\ nops = 0
    /\ game = NoGame

NextLoad == \E file \in SaveFiles : LoadFromFile(file)

SpecLoad == InitLoad /\ [][NextLoad]_vars

\* The arrays g and v are 9 by 9, of values 0..9 and of booleans.
WellFormed(g, v) ==
    /\ DOMAIN g = Idx
    /\ \A r \in Idx : DOMAIN g[r] = Idx
    /\ \A r \in Idx : \A c \in Idx : g[r][c] \in 0..9
    /\ DOMAIN v = Idx
    /\ \A r \in Idx : DOMAIN v[r] = Idx
    /\ \A r \in Idx : \A c \in Idx : v[r][c] \in BOOLEAN

(* C16, as stated: loading a save file whose grid or given array is not 9  *)
(* by 9, or holds a value outside 0..9, reports failure and makes no Board *)
(* that holds such an array.                                               *)
C16_MalformedIsRejected ==
    (/\ call.op = "load_from_file"
     /\ call.file.exists /\ call.file.json /\ call.file.keys
     /\ ~WellFormed(call.file.grid, call.file.given)) =>
        /\ ret = None
        /\ "board" \notin DOMAIN boards

----------------------------------------------------------------------------
\* Every given cell of every Board holds a value.
GivenNonZero ==
    \A b \in BoardNames : \A p \in Cells :
        IsGiven(b, p[1], p[2]) => Get(b, p[1], p[2]) # 0

\* The step is a clear() of the Board b.
Clears(b) == call'.op = "clear" /\ call'.obj = b /\ nops' = nops + 1

----------------------------------------------------------------------------
(* C18: in the grid Generator.generate or Generator.generate_simple        *)
(* returns, a cell is given if and only if it holds a nonzero value.       *)
C18_GivenIffNonZero ==
    (pc = "done" /\ call.op \in {"generate", "generate_simple"}) =>
        \A p \in Cells :
            IsGiven("board", p[1], p[2]) <=> (Get("board", p[1], p[2]) # 0)

\* generate_simple has returned a hard puzzle with given and empty cells.
C18_Witness ==
    /\ pc = "done"
    /\ call.op = "generate_simple"
    /\ gen.difficulty = HARD
    /\ \E p \in Cells : IsGiven("board", p[1], p[2])
    /\ \E p \in Cells : ~IsGiven("board", p[1], p[2]) /\ Get("board", p[1], p[2]) = 0

----------------------------------------------------------------------------
\* generate is in its removal phase, or past it.
InRemoval ==
    /\ call.op = "generate"
    /\ pc \in {"remove", "call", "loop", "ret", "returned", "done"}
    /\ gen.count > 0

----------------------------------------------------------------------------
(* generate_simple followed by Solver.solve on a copy of what it returned, *)
(* as in tests/test_generator.py, test_generate_simple.                    *)

\* board_copy = board.copy(); Solver.solve(board_copy)
SolveCopy ==
    /\ pc = "done"
    /\ call.op = "generate_simple"
    /\ LET new == CopyOf("board")
       IN  /\ boards' = boards @@ ("board_copy" :> new.board)
           /\ grids' = new.grids
           /\ givens' = new.givens
           /\ pre' = [boards |-> boards', grids |-> grids', givens |-> givens']
    /\ call' = [op |-> "solve", search |-> "solve", obj |-> "board_copy",
                target |-> "board_copy", limit |-> 0]
    /\ pc' = "call"
    /\ UNCHANGED <<game, stack, count, rv, ret, gen, nops>>

InitSimple == InitGenerator

NextSimple ==
    \/ \E difficulty \in Difficulties : GenerateSimple(difficulty)
    \/ RandEnter
    \/ RandTry
    \/ RandBack
    \/ SimpleFinish
    \/ SolveCopy
    \/ SolveEnter
    \/ SolveTry
    \/ SolveBack
    \/ SolveReturn

SpecSimple == InitSimple /\ [][NextSimple]_vars

(* C20: generate_simple returns a grid with exactly the drawn target       *)
(* number of empty cells, a number inside the tier's range, obtained from  *)
(* a complete valid grid by emptying cells with no uniqueness check; and   *)
(* Solver.solve on a copy of that grid returns True.                       *)
C20_SimpleTargetAndSolvable ==
    /\ (pc = "done" /\ call.op = "generate_simple") =>
          LET range == RemoveRange(gen.difficulty)
              g == GridOf("board")
          IN  /\ gen.count \in range[1]..range[2]
              /\ Cardinality(EmptyCellsOf(g)) = gen.count
              /\ gen.unique # {}
              /\ \A full \in gen.unique : IsComplete(full) /\ Extends(full, g)
    /\ (pc = "done" /\ call.op = "solve") =>
          /\ ret = TRUE
          /\ IsComplete(GridOf("board_copy"))
          /\ Extends(GridOf("board_copy"), GridOf("board"))
          /\ Cardinality(EmptyCellsOf(GridOf("board"))) = gen.count

\* solve has returned on the copy of an expert grid of generate_simple,
\* which has 58 empty cells.
C20_Witness ==
    /\ pc = "done"
    /\ call.op = "solve"
    /\ call.obj = "board_copy"
    /\ gen.difficulty = EXPERT
    /\ Cardinality(EmptyCellsOf(GridOf("board"))) = 58
    /\ IsFilled(GridOf("board_copy"))

----------------------------------------------------------------------------
(* Generator._generate_complete_board on its own, for every way of filling *)
(* the three diagonal boxes with rotations of 1..9.                        *)

\* The rotations the three calls of _fill_box may draw.
SeedBoxes == {<<a, b, c>> : a \in 0..8, b \in 0..8, c \in 0..8}

\* Generator._generate_complete_board, lines 62-68, to the call of
\* solve_with_randomness.
GenerateCompleteBoard ==
    /\ pc = "idle"
    /\ \E boxes \in SeedBoxes :
          /\ gen' = [shift |-> 0, src |-> [boxes |-> boxes, shift |-> 0]]
          /\ grids' = grids @@ (NewRef(grids) :> FillDiagonalBoxes(EmptyGrid, boxes))
    /\ boards' = boards @@ ("board" :> [grid |-> NewRef(grids), given |-> NewRef(givens)])
    /\ givens' = givens @@ (NewRef(givens) :> NoGiven)
    /\ call' = [op |-> "_generate_complete_board", search |-> "solve_with_randomness",
                obj |-> "board", target |-> "board", limit |-> 0]
    /\ pre' = [boards |-> boards', grids |-> grids', givens |-> givens']
    /\ pc' = "call"
    /\ UNCHANGED <<game, stack, count, rv, ret, nops>>

\* Generator._generate_complete_board, line 70: what solve_with_randomness
\* returned is dropped.
GenerateCompleteBoardReturn ==
    /\ call.op = "_generate_complete_board"
    /\ pc = "returned"
    /\ ret' = "board"
    /\ pc' = "done"
    /\ UNCHANGED <<game, boards, grids, givens, call, stack, count, rv, pre, gen, nops>>

InitSeed == InitGenerator

NextSeed ==
    \/ GenerateCompleteBoard
    \/ RandEnter
    \/ RandTry
    \/ RandBack
    \/ GenerateCompleteBoardReturn

SpecSeed == InitSeed /\ [][NextSeed]_vars

\* The cells of the diagonal box of origin (o, o), and the grid's other cells.
DiagonalBox(o) == {p \in Cells : p[1] \div BOX_SIZE = o /\ p[2] \div BOX_SIZE = o}
OffDiagonal == {p \in Cells : p[1] \div BOX_SIZE # p[2] \div BOX_SIZE}

\* Each diagonal box of g holds each of 1..9 exactly once.
SeedIn(g) ==
    \A o \in 0..(BOX_SIZE - 1) : \A v \in 1..9 :
        Cardinality({p \in DiagonalBox(o) : g[p[1]][p[2]] = v}) = 1

(* C22: whatever the three shuffles of the seed phase yield, the seed      *)
(* phase leaves a grid whose diagonal boxes each hold each of 1..9 exactly *)
(* once, with no conflict in any row, column or box; the randomized        *)
(* completion that follows returns True; and _generate_complete_board      *)
(* returns a grid that satisfies is_complete().                            *)
C22_SeedCompletes ==
    /\ (call.op = "_generate_complete_board" /\ pc = "call" /\ stack = <<>>) =>
          /\ SeedIn(GridOf("board"))
          /\ \A p \in OffDiagonal : Get("board", p[1], p[2]) = 0
          /\ ConflictFree(GridOf("board"))
    /\ (call.op = "_generate_complete_board" /\ pc = "returned") => rv = TRUE
    /\ Returned("_generate_complete_board") =>
          /\ IsComplete(GridOf("board"))
          /\ SeedIn(GridOf("board"))
          /\ Extends(GridOf("board"), PreGrid)

\* _generate_complete_board has returned a complete grid grown from the
\* boxes filled with the rotations 8, 2 and 5.
C22_Witness ==
    /\ Returned("_generate_complete_board")
    /\ gen.src.boxes = <<8, 2, 5>>
    /\ IsFilled(GridOf("board"))
    /\ Get("board", 0, 0) = 9
    /\ Get("board", 3, 3) = 3

----------------------------------------------------------------------------
\* Where Generator.generate is: 0 before the call, 1 in the completion of
\* the seeded grid, 2 in the removal, 3 once finalized and returned.
GenPhase ==
    IF call.op # "generate" THEN 0
    ELSE IF pc = "done" THEN 3
    ELSE IF pc = "remove" \/ call.search = "count_solutions" THEN 2
    ELSE 1

\* The positions still in the list.
Remaining(positions) == {positions[i] : i \in 1..Len(positions)}

\* One step of generate keeps to the order of the phases and to what each
\* phase may write.
PhaseStep ==
    call'.op = "generate" =>
        /\ GenPhase' \in {GenPhase, GenPhase + 1}
        /\ (GenPhase = 0 /\ GenPhase' = 1) =>
              /\ SeedIn(grids'[boards'["board"].grid])
              /\ \A p \in OffDiagonal : grids'[boards'["board"].grid][p[1]][p[2]] = 0
        /\ (GenPhase = 1 /\ GenPhase' = 2) =>
              /\ IsFilled(GridOf("board"))
              /\ grids'[boards'["board"].grid] = GridOf("board")
        /\ GenPhase = 2 =>
              /\ \A p \in EmptyCellsOf(GridOf("board")) :
                    (pc = "remove" \/ p # <<gen.row, gen.col>>) =>
                        grids'[boards'["board"].grid][p[1]][p[2]] = 0
              /\ IF gen'.attempts # gen.attempts
                 THEN /\ gen'.attempts = gen.attempts + 1
                      /\ <<gen'.row, gen'.col>> \in Remaining(gen.positions)
                      /\ <<gen'.row, gen'.col>> \notin Remaining(gen'.positions)
                      /\ Remaining(gen'.positions) \subseteq Remaining(gen.positions)
                 ELSE gen'.positions = gen.positions
        /\ (GenPhase >= 1 /\ givens'[boards'["board"].given] # GivenOf("board")) =>
              /\ GenPhase = 2
              /\ GenPhase' = 3
              /\ gen.removed = gen.count \/ gen.positions = <<>>

\* No cell is given before the removal is over, and the board's empty cells
\* are the accepted removals, with the cell under test while count_solutions
\* runs.
PhaseState ==
    /\ GenPhase \in {1, 2} =>
          \A b \in DOMAIN boards : givens[boards[b].given] = NoGiven
    /\ GenPhase \in {2, 3} =>
          Cardinality(EmptyCellsOf(GridOf("board"))) =
              gen.removed + (IF call.search = "count_solutions" /\ pc # "remove" /\ pc # "done"
                             THEN 1 ELSE 0)

(* C23: Generator.generate goes through seed, completion, removal and      *)
(* finalization in that order and never back.  During removal a cell       *)
(* accepted as removed is never refilled and each position is attempted at *)
(* most once; mark_given is called only once the last removal attempt is   *)
(* over, never while solve_with_randomness or count_solutions runs.        *)
C23_PhasesInOrder == []PhaseState /\ [][PhaseStep]_vars

\* generate has returned after removals accepted and removals refused.
C23_Witness ==
    /\ GenPhase = 3
    /\ gen.removed > 0
    /\ gen.attempts > gen.removed
    /\ \E p \in Cells : IsGiven("board", p[1], p[2])

----------------------------------------------------------------------------
(* The two single-solution searches, called by a client on the boards of   *)
(* Inputs.                                                                 *)

\* The rotations the shuffles of one call of solve_with_randomness yield.
SearchShifts == {0, 4}

\* Solver.solve_with_randomness(board)
SolveWithRandomness ==
    /\ pc = "idle"
    /\ \E shift \in SearchShifts : gen' = [shift |-> shift]
    /\ call' = Call("solve_with_randomness", "solve_with_randomness", "board", 0)
    /\ pre' = Snapshot
    /\ pc' = "call"
    /\ UNCHANGED <<game, boards, grids, givens, stack, count, rv, ret, nops>>

SolveWithRandomnessReturn ==
    /\ call.op = "solve_with_randomness"
    /\ pc = "returned"
    /\ pc' = "done"
    /\ ret' = rv
    /\ UNCHANGED <<game, boards, grids, givens, call, stack, count, rv, pre, gen, nops>>

InitSearch == InitSolver

NextSearch ==
    \/ Solve
    \/ SolveEnter
    \/ SolveTry
    \/ SolveBack
    \/ SolveReturn
    \/ SolveWithRandomness
    \/ RandEnter
    \/ RandTry
    \/ RandBack
    \/ SolveWithRandomnessReturn

SpecSearch == InitSearch /\ [][NextSearch]_vars

SingleSearches == {"solve", "solve_with_randomness"}

\* A step of a search writes only cells that were empty when the call was
\* made, and no given flag.
WritesEmptyOnly ==
    (call.op \in SingleSearches /\ call'.op = call.op) =>
        /\ \A p \in Cells :
              grids'[boards'["board"].grid][p[1]][p[2]] # Get("board", p[1], p[2]) =>
                  PreGrid[p[1]][p[2]] = 0
        /\ givens' = givens

\* What a search leaves when it returns.
LeavesInput ==
    (pc = "done" /\ call.op \in SingleSearches) =>
        /\ GivenOf("board") = PreGiven
        /\ ret = TRUE => Extends(GridOf("board"), PreGrid)
        /\ ret = FALSE => GridOf("board") = PreGrid

(* C24: Solver.solve and Solver.solve_with_randomness write only to cells  *)
(* that were empty in the input.  When they return True every cell that    *)
(* was nonzero in the input holds its input value and the given flags are  *)
(* as they were; when they return False every tentative placement has been *)
(* undone and the grid equals the input grid.                              *)
C24_WritesOnlyEmptyCells == []LeavesInput /\ [][WritesEmptyOnly]_vars

\* solve_with_randomness has returned False on a board with several empty
\* cells, after placing and undoing values.
C24_Witness ==
    /\ Returned("solve_with_randomness")
    /\ ret = FALSE
    /\ gen.shift = 4
    /\ Cardinality(EmptyCellsOf(PreGrid)) >= 3
    /\ CandidatesOf(PreGrid, FirstEmpty(PreGrid)) # {}

----------------------------------------------------------------------------
\* The ways of filling the empty cells of g in which every value placed is
\* one that no peer of its cell holds, whatever the filled cells of g hold
\* among themselves.
ValidFillings(g) ==
    LET empty == EmptyCellsOf(g)
    IN  {f \in [empty -> 1..9] :
            \A p \in empty : \A q \in Peers[p] :
                IF q \in empty THEN f[q] # f[p] ELSE g[q[1]][q[2]] # f[p]}

\* p comes before q in row-major order.
Before(p, q) == SIZE * p[1] + p[2] < SIZE * q[1] + q[2]

\* f1 is smaller than f2 at the first cell, in row-major order, where the
\* two differ.
LexLess(f1, f2) ==
    \E p \in DOMAIN f1 :
        /\ f1[p] < f2[p]
        /\ \A q \in DOMAIN f1 : Before(q, p) => f1[q] = f2[q]

\* g with its empty cells filled as f says.
Filled(g, f) ==
    [r \in Idx |-> [c \in Idx |-> IF <<r, c>> \in DOMAIN f THEN f[<<r, c>>] ELSE g[r][c]]]

(* C25: Solver.solve is deterministic: what it returns and the grid it     *)
(* leaves are functions of the cell values of the input alone.  It returns *)
(* True exactly when the empty cells can be filled with values valid at    *)
(* the time of placement, and the grid it leaves is then the smallest such *)
(* filling in row-major lexicographic order; otherwise it returns False    *)
(* and leaves the input grid.                                              *)
C25_SolveIsLexMin ==
    (Returned("solve") /\ PreGrid \in Played) =>
        LET fillings == ValidFillings(PreGrid)
        IN  /\ ret = (fillings # {})
            /\ ret = FALSE => GridOf("board") = PreGrid
            /\ ret = TRUE =>
                  \E f \in fillings :
                      /\ GridOf("board") = Filled(PreGrid, f)
                      /\ \A f2 \in fillings : f2 = f \/ LexLess(f, f2)

\* solve has returned True on a board that has more than one valid filling.
C25_Witness ==
    /\ Returned("solve")
    /\ PreGrid \in Played
    /\ ret = TRUE
    /\ Cardinality(ValidFillings(PreGrid)) >= 2

----------------------------------------------------------------------------
(* Every engine call, run to its end: the three searches called on a board *)
(* a client holds, and Generator.generate.  A search is followed up to the *)
(* return of its outermost invocation, after which the call has only its   *)
(* return statement left; generate is followed up to its own return.  The  *)
(* program is single-threaded and synchronous, so a call that can take a   *)
(* step takes it: the specification is weakly fair on its next-state       *)
(* relation.                                                               *)

\* The boards the searches are called on: the played boards with at least
\* three empty cells.
TermInputs == {g \in Played : Cardinality(EmptyCellsOf(g)) >= 3}

\* The tier generate is called with.
TermDifficulties == {EASY}

\* The client holds a board.
HoldsBoard == DOMAIN boards # {}

\* No invocation has returned yet; rv is read only after one has, at a "ret"
\* or at "returned", so what it holds before is never seen.
InitTerm ==
    /\ \/ /\ boards = <<>>
          /\ grids = <<>>
          /\ givens = <<>>
       \/ /\ boards = [b \in {"board"} |-> [grid |-> 1, given |-> 1]]
          /\ \E g \in TermInputs :
                /\ grids = [i \in {1} |-> g]
                /\ givens = [i \in {1} |-> GivenFor(g)]
    /\ call = NoCall
    /\ pc = "idle"
    /\ stack = <<>>
    /\ count = 0
    /\ rv = FALSE
    /\ ret = None
    /\ pre = [boards |-> boards, grids |-> grids, givens |-> givens]
    /\ gen = NoGen
    /\ nops = 0
    /\ game = NoGame

NextTerm ==
    \/ HoldsBoard /\ Solve
    \/ HoldsBoard /\ SolveWithRandomness
    \/ HoldsBoard /\ \E limit \in 1..MaxLimit : CountSolutions(limit)
    \/ ~HoldsBoard /\ \E difficulty \in TermDifficulties : Generate(difficulty)
    \/ SolveEnter
    \/ SolveTry
    \/ SolveBack
    \/ RandEnter
    \/ RandTry
    \/ RandBack
    \/ BacktrackEnter
    \/ BacktrackTry
    \/ BacktrackUndo
    \/ StartRemoval
    \/ RemoveTry
    \/ RemoveDecide
    \/ Finalize

\* Every step of a call moves pc or the stack, so fairness on the steps that
\* change these two is fairness on every step.
control == <<pc, stack>>

SpecTerm == InitTerm /\ [][NextTerm]_vars /\ WF_control(NextTerm)

\* The grid the search in progress was started on.
SearchInput ==
    IF call.op # "generate" THEN PreGrid
    ELSE IF call.search = "solve_with_randomness"
         THEN FillDiagonalBoxes(EmptyGrid, gen.src.boxes)
         ELSE GridOf("board")

\* The recursion is never deeper than the input has empty cells, and
\* generate never makes more attempts than there are positions, nor than
\* its budget allows.
DepthBounded ==
    /\ pc \in {"call", "loop", "ret"} =>
          /\ Len(stack) <= Cardinality(EmptyCellsOf(SearchInput))
          /\ Len(stack) <= SIZE * SIZE
    /\ (call.op = "generate" /\ (pc = "remove" \/ call.search = "count_solutions")) =>
          /\ gen.attempts <= Min({SIZE * SIZE, 3 * gen.count})
          /\ gen.attempts + Len(gen.positions) = SIZE * SIZE

\* The outermost invocation of a search has returned, or generate has.
CallEnded ==
    \/ pc = "done"
    \/ pc = "returned" /\ call.op # "generate"

(* C26: every engine call terminates.  solve, solve_with_randomness and    *)
(* count_solutions return on every input, the depth of their recursion     *)
(* never exceeding the number of empty cells of the input (at most 81),    *)
(* and Generator.generate returns, its removal loop making at most         *)
(* min(81, 3 x target) attempts without ever taking a position twice.      *)
C26_EveryCallTerminates ==
    /\ []DepthBounded
    /\ (pc # "idle") ~> CallEnded

\* A search is as deep as its input has empty cells, three or more.
C26_Witness ==
    /\ pc \in {"call", "loop", "ret"}
    /\ call.op = "count_solutions"
    /\ Len(stack) = Cardinality(EmptyCellsOf(SearchInput))
    /\ Len(stack) >= 3

----------------------------------------------------------------------------
(* GameState: the cursor, the move counter and the undo history of the     *)
(* game played on the Board named "board".  The timer (start_time and      *)
(* elapsed_time) is left out; is_paused is kept.                           *)

MAX_HISTORY == 100

\* hint_cell is None, or the pair (row, col).
NoHint == <<>>

\* Move.__init__
Move(row, col, old_value, new_value) ==
    [row |-> row, col |-> col, old_value |-> old_value, new_value |-> new_value]

\* Game.__init__ and GameState.__init__
NewGame(difficulty) ==
    [running |-> TRUE, show_help |-> FALSE, difficulty |-> difficulty,
     cursor |-> <<0, 0>>, move_count |-> 0, history |-> <<>>,
     is_paused |-> FALSE, hint_cell |-> NoHint]

\* A limit that drops the newest move.
LimitHistory_DropsNewest(history) ==
    IF Len(history) > MAX_HISTORY
    THEN SubSeq(history, 1, Len(history) - 1)
    ELSE history

\* GameState.set_cell, lines 58-59
LimitHistory(history) ==
    IF Len(history) > MAX_HISTORY THEN Tail(history) ELSE history

\* An undo that writes the value the move had set.
UndoWrites_NewValue(move) ==
    [grids EXCEPT ![boards["board"].grid][move.row][move.col] = move.new_value]

\* GameState.undo, line 76: the write into the grid list, past Board.set.
UndoWrites(move) ==
    [grids EXCEPT ![boards["board"].grid][move.row][move.col] = move.old_value]

\* A game is being played and no engine call is in progress.
Playing == pc = "idle" /\ game.running

\* GameState.move_cursor
MoveCursor(delta_row, delta_col) ==
    /\ Playing
    /\ call' = [op |-> "move_cursor", delta_row |-> delta_row, delta_col |-> delta_col]
    /\ pre' = Snapshot
    /\ game' = [game EXCEPT !.cursor = <<(@[1] + delta_row) % SIZE,
                                         (@[2] + delta_col) % SIZE>>]
    /\ ret' = None
    /\ nops' = nops + 1
    /\ UNCHANGED <<boards, grids, givens, pc, stack, count, rv, gen>>

\* What GameState.set_cell leaves in the GameState.
SetCellState(value) ==
    LET row == game.cursor[1]
        col == game.cursor[2]
        old_value == Get("board", row, col)
    IN  IF SetReturns("board", row, col)
        THEN [game EXCEPT
                 !.history = LimitHistory(Append(@, Move(row, col, old_value, value))),
                 !.move_count = @ + 1,
                 !.hint_cell = NoHint]
        ELSE game

\* GameState.set_cell
SetCell(value) ==
    /\ Playing
    /\ call' = [op |-> "set_cell", row |-> game.cursor[1], col |-> game.cursor[2],
                value |-> value]
    /\ pre' = Snapshot
    /\ grids' = SetWrites("board", game.cursor[1], game.cursor[2], value)
    /\ game' = SetCellState(value)
    /\ ret' = SetReturns("board", game.cursor[1], game.cursor[2])
    /\ nops' = nops + 1
    /\ UNCHANGED <<boards, givens, pc, stack, count, rv, gen>>

\* What GameState.undo leaves in the GameState.
UndoState ==
    IF game.history = <<>>
    THEN game
    ELSE [game EXCEPT
             !.history = SubSeq(@, 1, Len(@) - 1),
             !.move_count = IF @ - 1 > 0 THEN @ - 1 ELSE 0,
             !.hint_cell = NoHint]

\* GameState.undo
Undo ==
    /\ Playing
    /\ call' = [op |-> "undo"]
    /\ pre' = Snapshot
    /\ grids' = IF game.history = <<>>
                THEN grids
                ELSE UndoWrites(game.history[Len(game.history)])
    /\ game' = UndoState
    /\ ret' = (game.history # <<>>)
    /\ nops' = nops + 1
    /\ UNCHANGED <<boards, givens, pc, stack, count, rv, gen>>

----------------------------------------------------------------------------
(* A game on a board that Generator.generate has returned                  *)
(* (Game._start_new_game), and the calls of GameState on it.               *)

\* The tier the game is started with.
GameDifficulties == {EASY}

\* Game._start_new_game, lines 182-184: generate has returned the board.
NewGameState ==
    /\ pc = "done"
    /\ call.op = "generate"
    /\ game = NoGame
    /\ game' = NewGame(gen.difficulty)
    /\ pc' = "idle"
    /\ UNCHANGED <<boards, grids, givens, call, stack, count, rv, ret, pre, gen, nops>>

\* The values a player sets.
CellValues == {0, 5, 7}

\* The steps of the cursor, as the arrow keys make them.
Deltas == {<<-1, 0>>, <<1, 0>>, <<0, -1>>, <<0, 1>>}

InitGameState == InitGenerator

NextGameState ==
    \/ game = NoGame /\ \E difficulty \in GameDifficulties : Generate(difficulty)
    \/ RandEnter
    \/ RandTry
    \/ RandBack
    \/ StartRemoval
    \/ RemoveTry
    \/ BacktrackEnter
    \/ BacktrackTry
    \/ BacktrackUndo
    \/ RemoveDecide
    \/ Finalize
    \/ NewGameState
    \/ nops < MaxOps /\ \E delta \in Deltas : MoveCursor(delta[1], delta[2])
    \/ nops < MaxOps /\ \E value \in CellValues : SetCell(value)
    \/ nops < MaxOps /\ Undo

SpecGameState == InitGameState /\ [][NextGameState]_vars

\* A call of GameState is made in this step.
Calls(op) == nops' = nops + 1 /\ call'.op = op

\* The cursor is on a given cell.
OnGiven == IsGiven("board", game.cursor[1], game.cursor[2])

\* set_cell on a given cell returns False and leaves the board, the history
\* and the move counter.
RefusesGiven ==
    (Calls("set_cell") /\ OnGiven) =>
        /\ ret' = FALSE
        /\ grids' = grids
        /\ givens' = givens
        /\ game'.history = game.history
        /\ game'.move_count = game.move_count

\* set_cell on any other cell returns True and sets the cell.
SetsOthers ==
    (Calls("set_cell") /\ ~OnGiven) =>
        /\ ret' = TRUE
        /\ grids'[boards["board"].grid][game.cursor[1]][game.cursor[2]] = call'.value

\* undo straight after a successful set_cell returns True and leaves the
\* cell, and with it the grid, as it was before the set_cell.
UndoesSetCell ==
    (Calls("undo") /\ call.op = "set_cell" /\ ret = TRUE) =>
        /\ ret' = TRUE
        /\ grids'[boards["board"].grid][call.row][call.col] = PreGrid[call.row][call.col]
        /\ grids'[boards["board"].grid] = PreGrid

\* undo with an empty history returns False and changes nothing.
UndoOfNothing ==
    (Calls("undo") /\ game.history = <<>>) =>
        /\ ret' = FALSE
        /\ game' = game
        /\ UNCHANGED <<boards, grids, givens>>

(* C27: a successful set_cell(v) followed immediately by undo() returns    *)
(* True and restores the cell to the value it held before the set_cell;    *)
(* set_cell on a given cell returns False and leaves board, history and    *)
(* move_count unchanged; undo() with an empty history returns False and    *)
(* changes nothing.                                                        *)
C27_SetCellAndUndo ==
    [][RefusesGiven /\ SetsOthers /\ UndoesSetCell /\ UndoOfNothing]_vars

\* A cell that held 5 has been set to 7 and undo has brought the 5 back.
C27_Witness ==
    /\ call.op = "undo"
    /\ ret = TRUE
    /\ game.history # <<>>
    /\ LET move == game.history[Len(game.history)]
       IN  /\ move.new_value = 5
           /\ Get("board", move.row, move.col) = 5
           /\ PreGrid[move.row][move.col] = 7

\* No step of a game changes the value or the flag of a given cell.
KeepsGiven ==
    (game.running /\ game'.running) =>
        \A p \in Cells :
            IsGiven("board", p[1], p[2]) =>
                /\ givens'[boards'["board"].given][p[1]][p[2]]
                /\ grids'[boards'["board"].grid][p[1]][p[2]] = Get("board", p[1], p[2])

(* C29: in a game whose board comes from Generator.generate, no sequence   *)
(* of move_cursor, set_cell and undo calls changes the value or the given  *)
(* flag of a given cell, although undo writes to the grid without          *)
(* consulting the flag: the history only ever holds moves on cells that    *)
(* are not given.                                                          *)
C29_GivenCellsNeverChange ==
    /\ [](game.running =>
            \A i \in 1..Len(game.history) :
                ~IsGiven("board", game.history[i].row, game.history[i].col))
    /\ [][KeepsGiven]_vars

\* undo has written a cell of a generated board while the cursor is on a
\* given cell.
C29_Witness ==
    /\ call.op = "undo"
    /\ ret = TRUE
    /\ OnGiven
    /\ gen.difficulty = EASY

----------------------------------------------------------------------------
(* A long game: a saved game is resumed (Game.run, lines 29-33) with the   *)
(* cursor on an empty cell and no history, and the player sets that cell   *)
(* and undoes, more often than the history is long.                        *)

\* How many calls the player makes.
MaxCalls == 103

\* The board of the saved game: one cell is left to fill.
SavedBoard == [Solved EXCEPT ![0][3] = 0]

\* The value the player sets: the next one after each move.
NextValue == 1 + (game.move_count % 9)

\* GameState.from_dict, on the save of a game without history.
InitHistory ==
    /\ boards = [b \in {"board"} |-> [grid |-> 1, given |-> 1]]
    /\ grids = [i \in {1} |-> SavedBoard]
    /\ givens = [i \in {1} |-> GivenFor(Solved)]
    /\ call = NoCall
    /\ pc = "idle"
    /\ stack = <<>>
    /\ count = 0
    /\ rv = None
    /\ ret = None
    /\ pre = [boards |-> boards, grids |-> grids, givens |-> givens]
    /\ gen = NoGen
    /\ nops = 0
    /\ game = [NewGame(EASY) EXCEPT !.cursor = <<0, 3>>]

NextHistory ==
    \/ nops < MaxCalls /\ SetCell(NextValue)
    \/ nops < MaxCalls /\ Undo

SpecHistory == InitHistory /\ [][NextHistory]_vars

\* The move a set_cell of this step records.
Recorded ==
    Move(call'.row, call'.col, Get("board", call'.row, call'.col), call'.value)

\* A successful set_cell appends its move, and drops the oldest move when
\* the history is full; the other moves stay as they are, in their order.
AppendsAndDropsOldest ==
    (Calls("set_cell") /\ ~OnGiven) =>
        game'.history = IF Len(game.history) = MAX_HISTORY
                        THEN Append(Tail(game.history), Recorded)
                        ELSE Append(game.history, Recorded)

\* undo takes the newest move off.
TakesNewest ==
    (Calls("undo") /\ game.history # <<>>) =>
        game'.history = SubSeq(game.history, 1, Len(game.history) - 1)

(* C28: after any sequence of set_cell and undo calls the history holds at *)
(* most MAX_HISTORY (100) moves: when a successful set_cell would make it  *)
(* longer the oldest move is dropped, and the remaining moves stay in the  *)
(* order they were made.                                                   *)
C28_HistoryIsBounded ==
    /\ [](Len(game.history) <= MAX_HISTORY)
    /\ [][AppendsAndDropsOldest /\ TakesNewest]_vars

\* 102 moves have been made: the history holds the last 100 of them, the
\* third move first.
C28_Witness ==
    /\ game.move_count = MAX_HISTORY + 2
    /\ Len(game.history) = MAX_HISTORY
    /\ game.history[1] = Move(0, 3, 2, 3)
    /\ game.history[MAX_HISTORY].new_value = Get("board", 0, 3)

----------------------------------------------------------------------------
(* Game: the handler of a key, with the calls it makes.  A key is the      *)
(* string blessed returns: the character, or the name of a special key;    *)
(* the empty string is the timeout of inkey.  Messages and rendering       *)
(* leave no state.                                                         *)

\* str.lower, on the keys of the model
Lower(key) ==
    CASE key = "H" -> "h"
      [] key = "U" -> "u"
      [] key = "N" -> "n"
      [] key = "Q" -> "q"
      [] OTHER -> key

\* int(key), for key in '123456789'
Digits == [key \in {"1", "2", "3", "4", "5", "6", "7", "8", "9"} |->
              CASE key = "1" -> 1 [] key = "2" -> 2 [] key = "3" -> 3
                [] key = "4" -> 4 [] key = "5" -> 5 [] key = "6" -> 6
                [] key = "7" -> 7 [] key = "8" -> 8 [] key = "9" -> 9]

RECURSIVE SolveGrid(_), SolveFrom(_, _, _, _)

\* Solver.solve, lines 26-37: the for loop at (row, col), from the number
\* from on; what it returns, and the grid it leaves.
SolveFrom(g, row, col, from) ==
    LET n == FirstValid(g, row, col, from)
    IN  IF n > 9
        THEN [ok |-> FALSE, grid |-> g]
        ELSE LET r == SolveGrid([g EXCEPT ![row][col] = n])
             IN  IF r.ok THEN r ELSE SolveFrom(g, row, col, n + 1)

\* Solver.solve, as one call on the grid g.
SolveGrid(g) ==
    LET empty == FindEmptyCell(g)
    IN  IF empty = None
        THEN [ok |-> TRUE, grid |-> g]
        ELSE SolveFrom(g, empty[1], empty[2], 1)

\* Solver.get_hint, as one call: the hint (row, col, value), or None.
GetHintOn(g) ==
    LET r == SolveGrid(g)
    IN  IF r.ok THEN FirstDifference(g, r.grid) ELSE None

\* Game._give_hint
GiveHint ==
    LET hint == GetHintOn(GridOf("board"))
    IN  IF hint = None
        THEN game
        ELSE [game EXCEPT !.hint_cell = <<hint[1], hint[2]>>]

\* The handler leaves everything as it is.
Same == [game |-> game, grids |-> grids, start |-> None]

\* The handler changes the Game or its GameState.
With(g) == [game |-> g, grids |-> grids, start |-> None]

\* GameState.move_cursor, called by the handler.
Moved(delta_row, delta_col) ==
    With([game EXCEPT !.cursor = <<(@[1] + delta_row) % SIZE,
                                   (@[2] + delta_col) % SIZE>>])

\* Lines 141-147 and 151-155: set_cell, unless the cell is given.
Enter(num) ==
    IF IsGiven("board", game.cursor[1], game.cursor[2])
    THEN Same
    ELSE [game |-> SetCellState(num),
          grids |-> SetWrites("board", game.cursor[1], game.cursor[2], num),
          start |-> None]

\* Game._handle_input, lines 100-175: the Game, the grids and the
\* difficulty of the game to start, after the key.  answer is what the
\* player answers to _confirm_new_game and choice what _select_difficulty
\* returns.
KeyResult(key, answer, choice) ==
    IF key = "" THEN Same
    ELSE IF key = "?" \/ Lower(key) = "h"
    THEN With([game EXCEPT !.is_paused = ~game.show_help, !.show_help = ~@])
    ELSE IF game.show_help
    THEN With([game EXCEPT !.show_help = FALSE, !.is_paused = FALSE])
    ELSE IF IsComplete(GridOf("board"))
    THEN IF Lower(key) = "n"
         THEN [Same EXCEPT !.start = choice]
         ELSE IF Lower(key) = "q"
         THEN With([game EXCEPT !.running = FALSE])
         ELSE Same
    ELSE IF key = "KEY_UP" THEN Moved(-1, 0)
    ELSE IF key = "KEY_DOWN" THEN Moved(1, 0)
    ELSE IF key = "KEY_LEFT" THEN Moved(0, -1)
    ELSE IF key = "KEY_RIGHT" THEN Moved(0, 1)
    ELSE IF key \in DOMAIN Digits THEN Enter(Digits[key])
    ELSE IF key = "0" \/ key \in {"KEY_BACKSPACE", "KEY_DELETE"} THEN Enter(0)
    ELSE IF Lower(key) = "u"
    THEN [game |-> UndoState,
          grids |-> IF game.history = <<>>
                    THEN grids
                    ELSE UndoWrites(game.history[Len(game.history)]),
          start |-> None]
    ELSE IF Lower(key) = "h" /\ ~game.show_help THEN With(GiveHint)
    ELSE IF Lower(key) = "n"
    THEN IF answer THEN [Same EXCEPT !.start = choice] ELSE Same
    ELSE IF Lower(key) = "q"
    THEN With([game EXCEPT !.running = FALSE])
    ELSE Same

\* Game._handle_input.  When a new game is to be started the old one is
\* let go, and Generator.generate is the next call (_start_new_game).
HandleInput(key, answer, choice) ==
    /\ Playing
    /\ pre' = Snapshot
    /\ nops' = nops + 1
    /\ LET result == KeyResult(key, answer, choice)
       IN  IF result.start = None
           THEN /\ call' = [op |-> "_handle_input", key |-> key]
                /\ game' = result.game
                /\ grids' = result.grids
                /\ UNCHANGED <<boards, givens, gen>>
           ELSE /\ call' = [op |-> "_start_new_game", key |-> key,
                            difficulty |-> result.start]
                /\ game' = NoGame
                /\ boards' = <<>>
                /\ grids' = <<>>
                /\ givens' = <<>>
                /\ gen' = NoGen
    /\ UNCHANGED <<pc, stack, count, rv, ret>>

\* Game._start_new_game, line 182
StartNewGame ==
    /\ call.op = "_start_new_game"
    /\ game = NoGame
    /\ Generate(call.difficulty)

\* The keys a player presses.
GameKeys ==
    {"", "?", "h", "H", "KEY_UP", "KEY_DOWN", "KEY_LEFT", "KEY_RIGHT",
     "5", "0", "KEY_DELETE", "u", "n", "q", "x"}

\* What _select_difficulty returns.
Choices == {None} \cup GameDifficulties

\* The boards of the saved games: finished, one cell left, four cells left.
GameInputs ==
    {Solved, SavedBoard,
     [Solved EXCEPT ![0][3] = 0, ![0][4] = 0, ![3][3] = 0, ![3][4] = 0]}

\* Where the cursor of the saved game is: on a given cell, on a cell of the
\* player.
GameCursors == {<<0, 0>>, <<0, 3>>}

\* Game.run, lines 29-33: a saved game is resumed.
InitGame ==
    /\ boards = [b \in {"board"} |-> [grid |-> 1, given |-> 1]]
    /\ \E g \in GameInputs : grids = [i \in {1} |-> g]
    /\ givens = [i \in {1} |-> GivenFor(Solved)]
    /\ call = NoCall
    /\ pc = "idle"
    /\ stack = <<>>
    /\ count = 0
    /\ rv = None
    /\ ret = None
    /\ pre = [boards |-> boards, grids |-> grids, givens |-> givens]
    /\ gen = NoGen
    /\ nops = 0
    /\ \E cursor \in GameCursors : game = [NewGame(EASY) EXCEPT !.cursor = cursor]

NextGame ==
    \/ nops < MaxOps /\ \E key \in GameKeys, answer \in BOOLEAN, choice \in Choices :
                            HandleInput(key, answer, choice)
    \/ StartNewGame
    \/ RandEnter
    \/ RandTry
    \/ RandBack
    \/ StartRemoval
    \/ RemoveTry
    \/ BacktrackEnter
    \/ BacktrackTry
    \/ BacktrackUndo
    \/ RemoveDecide
    \/ Finalize
    \/ NewGameState

SpecGame == InitGame /\ [][NextGame]_vars

\* The key of this step is h, pressed in normal play while a hint exists.
HintRequested ==
    /\ Calls("_handle_input")
    /\ Lower(call'.key) = "h"
    /\ ~game.show_help
    /\ ~IsComplete(GridOf("board"))
    /\ SolveGrid(GridOf("board")).ok

(* C21, as stated: during normal play (help overlay not shown, puzzle not  *)
(* complete) pressing the h key requests a hint: the handler reaches       *)
(* _give_hint, which calls Solver.get_hint and sets hint_cell to the       *)
(* hinted position when a hint exists.                                     *)
C21_HKeyGivesHint ==
    [][HintRequested =>
          LET hint == GetHintOn(GridOf("board"))
          IN  /\ game'.hint_cell = <<hint[1], hint[2]>>
              /\ ~game'.show_help]_vars

====
